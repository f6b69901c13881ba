----------------------------- MODULE LspTheorems -----------------------------
(***************************************************************************)
(* What holds of the language servers and the documents for any number of  *)
(* servers, documents, goroutines, edits and starts.                       *)
(*                                                                         *)
(* ProcessInv is the invariant of the table of clients: whatever happens,  *)
(* one process is started for a server at a time.  DocInv is that of the   *)
(* documents as long as none of the lapses of LspSync has happened: it     *)
(* says what a server has of a document at every point between the claim   *)
(* and the didOpen, and while the UI changes, closes or reopens it.        *)
(***************************************************************************)
EXTENDS LspSync, FiniteSetTheorems, TLAPS

JobNames == {"none", "open", "change", "close", "restart", "ask", "workspace"}
PcNames == {"idle", "lookup", "starting", "snapshot", "opening", "tell",
            "request", "forget", "resetting", "reloading", "halted"}

ThreadType ==
  [pc : PcNames, job : JobNames, doc : Doc \cup {Elsewhere, "none"},
   todo : Seq(Server), out : [Server -> Nat], must : SUBSET Server,
   snap : Nat, queue : Seq(Doc), there : BOOLEAN]

\* The types; the threads one by one, which is what the steps change.
LspStrongType ==
  /\ listed \subseteq Doc /\ fresh \subseteq Doc
  /\ version \in [Doc -> Nat]
  /\ opened \subseteq Doc /\ pendingOpen \subseteq Doc
  /\ clients \in [Server -> Nat] /\ born \in [Server -> Nat]
  /\ running \subseteq Server \X Nat
  /\ starting \in Thread \cup {"none"}
  /\ threads \in [Thread -> ThreadType]
  /\ mirror \in [Server -> [Doc -> Int]]
  /\ lapses \subseteq AnyLapse

\* Which thread does what, and what it has at hand when it is there.
JobOK(t, r) ==
  /\ r.pc \in {"idle", "resetting", "reloading", "halted"} <=> r.job = "none"
  /\ r.job = "none" => r.doc = "none"
  /\ r.pc = "idle" => r.out = NoClients
  /\ r.job \in {"change", "close", "restart"} => t = UI
  /\ r.pc \in {"resetting", "reloading"} => t = UI
  /\ r.job = "workspace" => t = Startup
  /\ r.job = "ask" => t \in Worker
  /\ r.job \notin {"none", "workspace"} => r.doc \in Doc
  /\ r.job = "workspace" =>
       /\ r.pc \in {"lookup", "starting", "opening"}
       /\ r.pc # "opening" => r.out = NoClients
  /\ r.must # {} => r.job = "restart" /\ r.pc \in {"lookup", "starting"}
  /\ r.pc = "starting" => r.todo # << >>
  /\ r.pc \in {"snapshot", "opening"} /\ r.job # "workspace" => r.todo = << >>
  /\ r.pc = "tell" => /\ r.job \in {"change", "close", "restart"}
                      /\ r.todo = << >>
  /\ r.pc = "forget" => r.job = "close"
  /\ r.pc = "request" => r.job = "ask"

JobsFit == \A t \in Thread : JobOK(t, threads[t])

\* The numbers of clients only grow: what a thread remembers is never the
\* number of a client to come.
NumbersGrow ==
  /\ \A s \in Server : clients[s] <= born[s]
  /\ \A p \in running : 1 <= p[2] /\ p[2] <= born[p[1]]
  /\ \A t \in Thread, s \in Server : threads[t].out[s] <= born[s]
  /\ Reloads(UI) =>
       \A s \in Server : Live(s) => threads[UI].out[s] < clients[s]

\* The one who starts a server holds the lock, and the server has no client.
LockIsHeld ==
  \A t \in Thread : At(t, "starting") =>
    starting = t /\ clients[Wanted(t)] = 0

\* Who is not connected knows nothing.
OnlyTheLiveKnow == \A s \in Server : ~Live(s) => mirror[s] = NoTexts

ProcessInv ==
  LspStrongType /\ JobsFit /\ NumbersGrow /\ LockIsHeld /\ OnlyTheLiveKnow
  /\ NoOrphans

(***************************************************************************)
(* The documents, as long as there was no lapse.                           *)
(***************************************************************************)

\* The thread is between its claim of the document and its didOpen, which will
\* reach the server.
Claims(t, d) ==
  /\ DocOf(t) = d /\ threads[t].pc \in {"snapshot", "opening"}
  /\ JobOf(t) # "workspace"

Opener(t, s, d) == Claims(t, d) /\ s \in Reached(t)

\* The UI is in the middle of changing, closing or reopening the document.
Telling(d) ==
  DocOf(UI) = d /\ JobOf(UI) \in {"change", "close", "restart"}

\* What is open is listed, and what is still to be opened;
ListsFit ==
  /\ opened \subseteq listed
  /\ pendingOpen \subseteq listed
  /\ JobOf(UI) # "none" => DocOf(UI) \in listed
  /\ \A i \in DOMAIN threads[UI].queue : threads[UI].queue[i] \in listed
  /\ JobOf(UI) \in {"change", "close", "restart"} => threads[UI].queue = << >>
  /\ JobOf(UI) = "close" => DocOf(UI) \notin pendingOpen
  /\ \A t \in Thread \ {UI} : JobOf(t) = "open" => threads[t].there

\* only one thread opens it, with the text it has, at a server that has none,
\* and that is not sent changes if this one is sent next;
OpenersAreAlone ==
  \A t \in Thread, s \in Server, d \in Doc : Opener(t, s, d) =>
    /\ d \in opened
    /\ mirror[s][d] = Closed
    /\ At(t, "opening") => threads[t].snap = version[d]
    /\ \A u \in Thread : Opener(u, s, d) => u = t
    /\ t = UI /\ JobOf(UI) = "change" => s \in FullSync

\* nobody opens it while the UI tells of it;
NobodyOvertakes ==
  \A t \in Thread \ {UI}, d \in Doc : Telling(d) => ~Claims(t, d)

\* and the UI knows all the servers then that have come up.
AllAreFound ==
  \A d \in opened, s \in Server :
    Telling(d) /\ threads[UI].must = {} /\ Live(s)
      => \/ threads[UI].out[s] = clients[s]
         \/ \E i \in DOMAIN threads[UI].todo : threads[UI].todo[i] = s

TellingIsOpen ==
  /\ At(UI, "tell") => DocOf(UI) \in opened
  /\ threads[UI].pc \in {"snapshot", "opening"} => DocOf(UI) \in opened
  /\ JobOf(UI) = "change" => version[DocOf(UI)] >= 1
  /\ JobOf(UI) = "close" /\ ~At(UI, "forget") =>
       /\ DocOf(UI) \in opened
       /\ threads[UI].pc \in {"lookup", "starting", "tell"}

NotOpenedIsClosed ==
  \A d \in Doc \ opened, s \in Server : mirror[s][d] = Closed

\* What a server may have of a document that is open.
Has(s, d, m) ==
  /\ ~Telling(d) => m = version[d]
  /\ Telling(d) /\ JobOf(UI) = "change" =>
       m = version[d] - 1 \/ (s \in FullSync /\ m = version[d])
  /\ Telling(d) /\ JobOf(UI) = "close" =>
       m = IF At(UI, "forget") THEN Closed ELSE version[d]
  /\ Telling(d) /\ JobOf(UI) = "restart" =>
       \/ m = version[d]
       \/ m = Closed /\ (threads[UI].must = {} \/ threads[UI].out[s] # 0)

OpenedIsKnown ==
  \A d \in opened, s \in Server :
    Live(s) /\ (\A t \in Thread : ~Opener(t, s, d)) => Has(s, d, mirror[s][d])

DocInv ==
  /\ ListsFit /\ OpenersAreAlone /\ NobodyOvertakes /\ AllAreFound
  /\ TellingIsOpen /\ NotOpenedIsClosed /\ OpenedIsKnown

SyncInv == lapses = {} => DocInv

(***************************************************************************)
(* What the threads are set to.                                            *)
(***************************************************************************)

LEMMA NoClientsType ==
  /\ NoClients \in [Server -> Nat]
  /\ \A s \in Server : NoClients[s] = 0
BY DEF NoClients

\* Any order of any of the documents, or of any of the servers, is a sequence.
LEMMA OrdersAreSequences ==
  ASSUME NEW S, IsFiniteSet(S), NEW q \in Orders(S)
  PROVE  /\ q \in Seq(S)
         /\ \A i \in DOMAIN q : q[i] \in S
         /\ S # {} => q # << >>
<1>1. Cardinality(S) \in Nat
  BY FS_CardinalityType
<1>2. q \in [1 .. Cardinality(S) -> S] /\ {q[i] : i \in DOMAIN q} = S
  BY DEF Orders
<1>3. q \in Seq(S)
  BY <1>1, <1>2
<1>4. S # {} => DOMAIN q # {}
  BY <1>2
<1>5. ASSUME S # {}
      PROVE  q # << >>
  <2>1. PICK i \in DOMAIN q : TRUE
    BY <1>4, <1>5
  <2>2. DOMAIN << >> = {}
    OBVIOUS
  <2>3. QED
    BY <2>1, <2>2
<1>6. QED
  BY <1>2, <1>3, <1>5

LEMMA ServersAreFinite ==
  ASSUME LspSyncAssumption, NEW S \in SUBSET Server
  PROVE  IsFiniteSet(S)
<1>1. Names \in Seq(Server)
  BY DEF LspSyncAssumption
<1>2. DOMAIN Names = 1 .. Len(Names) /\ Len(Names) \in Nat
  BY <1>1
<1>3. IsFiniteSet(DOMAIN Names)
  BY <1>2, FS_Interval
<1>4. Names \in [DOMAIN Names -> Server]
  BY <1>1
<1>5. \A s \in Server : \E i \in DOMAIN Names : Names[i] = s
  BY DEF Server
<1>6. Names \in Surjection(DOMAIN Names, Server)
  BY <1>4, <1>5 DEF Surjection
<1>7. IsFiniteSet(Server)
  BY <1>3, <1>6, FS_Surjection
<1>8. QED
  BY <1>7, FS_Subset

LEMMA IdleFields ==
  /\ Idle \in ThreadType
  /\ Idle.pc = "idle" /\ Idle.job = "none" /\ Idle.doc = "none"
  /\ Idle.todo = << >> /\ Idle.out = NoClients /\ Idle.must = {}
  /\ Idle.queue = << >>
BY NoClientsType DEF Idle, ThreadType, PcNames, JobNames

LEMMA OverFields ==
  ASSUME NEW t \in Thread, threads[t] \in ThreadType
  PROVE  /\ Over(t) \in ThreadType
         /\ Over(t).pc = "idle" /\ Over(t).job = "none"
         /\ Over(t).doc = "none" /\ Over(t).todo = << >>
         /\ Over(t).out = NoClients /\ Over(t).must = {}
         /\ Over(t).queue = threads[t].queue
<1>1. Over(t) = [Idle EXCEPT !.queue = threads[t].queue]
  BY DEF Over
<1>2. threads[t].queue \in Seq(Doc)
  BY DEF ThreadType
<1>3. [Idle EXCEPT !.queue = threads[t].queue] \in ThreadType
  BY <1>2, IdleFields DEF ThreadType
<1>4. QED
  BY <1>1, <1>3, IdleFields DEF ThreadType

LEMMA JobFields ==
  ASSUME LspSyncAssumption, NEW t \in Thread, threads[t] \in ThreadType,
         NEW job \in JobNames, NEW d \in Doc \cup {Elsewhere}
  PROVE  /\ Job(t, job, d) \in ThreadType
         /\ Job(t, job, d).pc = "lookup" /\ Job(t, job, d).job = job
         /\ Job(t, job, d).doc = d /\ Job(t, job, d).todo = Names
         /\ Job(t, job, d).there = (d \in listed)
         /\ Job(t, job, d).out = threads[t].out
         /\ Job(t, job, d).must = threads[t].must
         /\ Job(t, job, d).queue = threads[t].queue
<1>1. Names \in Seq(Server)
  BY DEF LspSyncAssumption
<1>2. (d \in listed) \in BOOLEAN
  OBVIOUS
<1>3. QED
  BY <1>1, <1>2 DEF Job, ThreadType, PcNames

LEMMA FoundFields ==
  ASSUME NEW t \in Thread, threads[t] \in ThreadType, threads[t].todo # << >>,
         NEW k \in Nat
  PROVE  /\ Wanted(t) \in Server
         /\ Found(t, k) \in ThreadType
         /\ Found(t, k).pc = "lookup"
         /\ Found(t, k).todo = Tail(threads[t].todo)
         /\ Found(t, k).out = [threads[t].out EXCEPT ![Wanted(t)] = k]
         /\ Found(t, k).job = threads[t].job
         /\ Found(t, k).doc = threads[t].doc
         /\ Found(t, k).must = threads[t].must
         /\ Found(t, k).queue = threads[t].queue
         /\ Found(t, k).there = threads[t].there
<1>1. threads[t].todo \in Seq(Server) /\ threads[t].out \in [Server -> Nat]
  BY DEF ThreadType
<1>2. Wanted(t) \in Server /\ Tail(threads[t].todo) \in Seq(Server)
  BY <1>1 DEF Wanted
<1>3. [threads[t].out EXCEPT ![Wanted(t)] = k] \in [Server -> Nat]
  BY <1>1
<1>4. Found(t, k) =
        [threads[t] EXCEPT !.pc = "lookup", !.todo = Tail(threads[t].todo),
                           !.out = [threads[t].out EXCEPT ![Wanted(t)] = k]]
  BY DEF Found, ThreadType
<1>5. QED
  BY <1>2, <1>3, <1>4 DEF ThreadType, PcNames

LEMMA AfterOpenFields ==
  ASSUME NEW t \in Thread, threads[t] \in ThreadType, JobOf(t) # "none"
  PROVE  /\ AfterOpen(t) \in ThreadType
         /\ JobOf(t) \in {"change", "close", "restart"} =>
              AfterOpen(t) = [threads[t] EXCEPT !.pc = "tell"]
         /\ JobOf(t) = "ask" =>
              AfterOpen(t) = [threads[t] EXCEPT !.pc = "request"]
         /\ JobOf(t) = "open" => AfterOpen(t) = Over(t)
         /\ JobOf(t) = "workspace" =>
              AfterOpen(t) =
                [threads[t] EXCEPT !.pc = "lookup", !.out = NoClients]
<1>1. JobOf(t) \in JobNames
  BY DEF JobOf, ThreadType
<1>2. CASE JobOf(t) \in {"change", "close", "restart"}
  <2>1. AfterOpen(t) = [threads[t] EXCEPT !.pc = "tell"]
    BY <1>2 DEF AfterOpen
  <2>2. QED
    BY <1>2, <2>1 DEF ThreadType, PcNames
<1>3. CASE JobOf(t) = "ask"
  <2>1. AfterOpen(t) = [threads[t] EXCEPT !.pc = "request"]
    BY <1>3 DEF AfterOpen
  <2>2. QED
    BY <1>3, <2>1 DEF ThreadType, PcNames
<1>4. CASE JobOf(t) = "open"
  <2>1. AfterOpen(t) = Over(t)
    BY <1>4 DEF AfterOpen
  <2>2. QED
    BY <1>4, <2>1, OverFields
<1>5. CASE JobOf(t) = "workspace"
  <2>1. AfterOpen(t) = [threads[t] EXCEPT !.pc = "lookup", !.out = NoClients]
    BY <1>5 DEF AfterOpen
  <2>2. QED
    BY <1>5, <2>1, NoClientsType DEF ThreadType, PcNames
<1>6. QED
  BY <1>1, <1>2, <1>3, <1>4, <1>5 DEF JobNames

\* A thread moves, and no other does.
LEMMA OneMoves ==
  ASSUME threads \in [Thread -> ThreadType],
         NEW t \in Thread, NEW r \in ThreadType, Moves(t, r)
  PROVE  /\ threads' \in [Thread -> ThreadType]
         /\ threads'[t] = r
         /\ \A u \in Thread \ {t} : threads'[u] = threads[u]
BY DEF Moves

(***************************************************************************)
(* The processes.                                                          *)
(***************************************************************************)

\* A thread moves and neither takes the lock nor touches the table.
LEMMA QuietMove ==
  ASSUME ProcessInv, NEW t \in Thread, NEW r \in ThreadType,
         Moves(t, r), JobOK(t, r), UNCHANGED table,
         r.pc \notin {"starting", "resetting", "reloading"}, ~Reloads(t),
         \A s \in Server : r.out[s] <= born[s],
         \A s \in Server : ~Live(s) => mirror'[s] = mirror[s]
  PROVE  /\ threads' \in [Thread -> ThreadType]
         /\ JobsFit' /\ NumbersGrow' /\ LockIsHeld' /\ OnlyTheLiveKnow'
         /\ NoOrphans'
<1>1. /\ clients' = clients /\ born' = born /\ running' = running
      /\ starting' = starting
  BY DEF table
<1>2. /\ threads' \in [Thread -> ThreadType]
      /\ threads'[t] = r
      /\ \A u \in Thread \ {t} : threads'[u] = threads[u]
  BY OneMoves DEF ProcessInv, LspStrongType
<1>3. JobsFit'
  BY <1>2 DEF JobsFit, JobOK, ProcessInv
<1>u. UI \in Thread
  BY DEF Thread
<1>4. NumbersGrow'
  <2>1. \A u \in Thread, s \in Server : threads'[u].out[s] <= born'[s]
    BY <1>1, <1>2 DEF ProcessInv, NumbersGrow
  <2>2. Reloads(UI)' => threads'[UI] = threads[UI] /\ t # UI
    BY <1>2, <1>u DEF Reloads, At
  <2>3. QED
    BY <1>1, <2>1, <2>2 DEF ProcessInv, NumbersGrow, Reloads, At, Live
<1>5. LockIsHeld'
  BY <1>1, <1>2 DEF ProcessInv, LockIsHeld, At, Wanted
<1>6. OnlyTheLiveKnow'
  BY <1>1 DEF ProcessInv, OnlyTheLiveKnow, Live
<1>7. NoOrphans'
  <2>1. Reloads(UI) =>
          Reloads(UI)' /\ threads'[UI] = threads[UI]
    BY <1>2, <1>u DEF Reloads, At
  <2>2. QED
    BY <1>1, <2>1 DEF ProcessInv, NoOrphans
<1>8. QED
  BY <1>2, <1>3, <1>4, <1>5, <1>6, <1>7

\* The types but for the threads.
OtherTypes ==
  /\ listed \subseteq Doc /\ fresh \subseteq Doc
  /\ version \in [Doc -> Nat]
  /\ opened \subseteq Doc /\ pendingOpen \subseteq Doc
  /\ clients \in [Server -> Nat] /\ born \in [Server -> Nat]
  /\ running \subseteq Server \X Nat
  /\ starting \in Thread \cup {"none"}
  /\ mirror \in [Server -> [Doc -> Int]]
  /\ lapses \subseteq AnyLapse

LEMMA ThreadsHaveTypes ==
  ASSUME ProcessInv, NEW t \in Thread
  PROVE  /\ threads[t] \in ThreadType /\ JobOK(t, threads[t])
         /\ \A s \in Server : threads[t].out[s] \in Nat
         /\ \A s \in Server : threads[t].out[s] <= born[s]
         /\ \A s \in Server : NoClients[s] <= born[s]
<1>1. threads[t] \in ThreadType /\ JobOK(t, threads[t])
  BY DEF ProcessInv, LspStrongType, JobsFit
<1>2. \A s \in Server : threads[t].out[s] <= born[s]
  BY DEF ProcessInv, NumbersGrow
<1>3. \A s \in Server : born[s] \in Nat
  BY DEF ProcessInv, LspStrongType
<1>4. QED
  BY <1>1, <1>2, <1>3, NoClientsType DEF ThreadType

\* Who is idle begins a job.
LEMMA BeginsQuietly ==
  ASSUME LspSyncAssumption, ProcessInv, NEW t \in Thread, At(t, "idle"),
         NEW job \in JobNames \ {"none"}, NEW d \in Doc \cup {Elsewhere},
         job \in {"change", "close", "restart"} => t = UI,
         job = "workspace" => t = Startup,
         job = "ask" => t \in Worker,
         job # "workspace" => d \in Doc,
         NEW r \in ThreadType,
         r.pc = "lookup" \/ (r.pc = "forget" /\ job = "close"),
         r.job = job, r.doc = d,
         job = "workspace" => r.out = NoClients,
         r.must # {} => job = "restart" /\ r.pc = "lookup"
  PROVE  JobOK(t, r)
BY DEF JobOK, JobNames

LEMMA IdleHasNothing ==
  ASSUME ProcessInv, NEW t \in Thread, At(t, "idle")
  PROVE  /\ JobOf(t) = "none" /\ DocOf(t) = "none" /\ threads[t].must = {}
BY ThreadsHaveTypes DEF At, JobOK, JobOf, DocOf

LEMMA FromParts ==
  ASSUME OtherTypes', threads' \in [Thread -> ThreadType],
         JobsFit', NumbersGrow', LockIsHeld', OnlyTheLiveKnow', NoOrphans'
  PROVE  ProcessInv'
BY DEF ProcessInv, LspStrongType, OtherTypes

\* What QuietMove leaves are the types of the other variables.
LEMMA QuietStep ==
  ASSUME ProcessInv, NEW t \in Thread, NEW r \in ThreadType,
         Moves(t, r), JobOK(t, r), UNCHANGED table,
         r.pc \notin {"starting", "resetting", "reloading"}, ~Reloads(t),
         \A s \in Server : r.out[s] <= born[s],
         \A s \in Server : ~Live(s) => mirror'[s] = mirror[s],
         OtherTypes'
  PROVE  ProcessInv'
BY QuietMove, FromParts

\* A job begins on a document, or goes to its end at once.
LEMMA JobBegins ==
  ASSUME LspSyncAssumption, ProcessInv, NEW t \in Thread, At(t, "idle"),
         NEW job \in JobNames \ {"none"}, NEW d \in Doc \cup {Elsewhere},
         job \in {"change", "close", "restart"} => t = UI,
         job = "workspace" => t = Startup,
         job = "ask" => t \in Worker,
         job # "workspace" => d \in Doc,
         NEW q \in Seq(Doc),
         \/ Moves(t, [Job(t, job, d) EXCEPT !.queue = q])
         \/ job = "close" /\ Moves(t, [Job(t, job, d) EXCEPT !.pc = "forget"])
         \/ Moves(t, Job(t, job, d)),
         UNCHANGED <<table, mirror>>, OtherTypes'
  PROVE  ProcessInv'
<1>1. /\ threads[t] \in ThreadType
      /\ JobOK(t, threads[t])
      /\ \A s \in Server : threads[t].out[s] <= born[s]
  BY ThreadsHaveTypes
<1>2. threads[t].must = {} /\ threads[t].out = NoClients
  BY <1>1 DEF JobOK, At
<1> DEFINE j == Job(t, job, d)
<1>3. /\ j \in ThreadType /\ j.pc = "lookup" /\ j.job = job /\ j.doc = d
      /\ j.out = threads[t].out /\ j.must = threads[t].must
  BY <1>1, JobFields
<1> HIDE DEF j
<1>4. ASSUME NEW r \in ThreadType, Moves(t, r),
             r.pc = "lookup" \/ (r.pc = "forget" /\ job = "close"),
             r.job = job, r.doc = d, r.out = NoClients, r.must = {}
      PROVE  ProcessInv'
  <2>1. JobOK(t, r)
    BY <1>4, BeginsQuietly
  <2>2. ~Reloads(t)
    BY DEF Reloads, At
  <2>3. QED
    BY <1>1, <1>2, <1>4, <2>1, <2>2, QuietStep
<1>5. CASE Moves(t, [j EXCEPT !.queue = q])
  BY <1>2, <1>3, <1>4, <1>5 DEF ThreadType
<1>6. CASE job = "close" /\ Moves(t, [j EXCEPT !.pc = "forget"])
  BY <1>2, <1>3, <1>4, <1>6 DEF ThreadType, PcNames
<1>7. CASE Moves(t, j)
  BY <1>2, <1>3, <1>4, <1>7
<1>8. QED
  BY <1>5, <1>6, <1>7 DEF j

LEMMA ReadyIsIdle ==
  ASSUME ProcessInv, Ready
  PROVE  UI \in Thread /\ At(UI, "idle") /\ threads[UI].queue \in Seq(Doc)
BY ThreadsHaveTypes DEF Ready, Thread, ThreadType

LEMMA UserActsOK ==
  ASSUME LspSyncAssumption, ProcessInv,
         OpenFile \/ Edit \/ Save \/ CloseDocument
  PROVE  ProcessInv'
<1>u. Ready
  BY DEF OpenFile, Edit, Save, CloseDocument
<1>0. UI \in Thread /\ At(UI, "idle") /\ threads[UI].queue \in Seq(Doc)
  BY <1>u, ReadyIsIdle
<1>t. OtherTypes
  BY DEF ProcessInv, LspStrongType, OtherTypes
<1>1. CASE OpenFile
  <2>1. PICK d \in fresh : /\ listed' = listed \cup {d} /\ fresh' = fresh \ {d}
                           /\ Moves(UI, Job(UI, "open", d))
    BY <1>1 DEF OpenFile
  <2>2. OtherTypes'
    BY <1>1, <1>t, <2>1 DEF OpenFile, OtherTypes, flags, table
  <2>3. d \in Doc
    BY <1>t, <2>1 DEF OtherTypes
  <2>4. UNCHANGED <<table, mirror>>
    BY <1>1 DEF OpenFile
  <2>5. QED
    BY <1>0, <2>1, <2>2, <2>3, <2>4, JobBegins DEF JobNames
<1>2. CASE Edit
  <2>1. PICK d \in listed : /\ version' = [version EXCEPT ![d] = @ + 1]
                            /\ Moves(UI, Job(UI, "change", d))
                            /\ OvertakesOpen(d)
    BY <1>2 DEF Edit
  <2>2. lapses' \subseteq AnyLapse
    BY <1>t, <2>1 DEF OvertakesOpen, Happens, OtherTypes, AnyLapse
  <2>3. OtherTypes'
    <3>1. version' \in [Doc -> Nat]
      BY <1>t, <2>1 DEF OtherTypes
    <3>2. QED
      BY <1>2, <1>t, <2>2, <3>1 DEF Edit, OtherTypes, flags, table
  <2>4. d \in Doc
    BY <1>t, <2>1 DEF OtherTypes
  <2>5. UNCHANGED <<table, mirror>>
    BY <1>2 DEF Edit
  <2>6. QED
    BY <1>0, <2>1, <2>3, <2>4, <2>5, JobBegins DEF JobNames
<1>3. CASE Save
  <2>1. PICK d \in listed : Moves(UI, Job(UI, "open", d))
    BY <1>3 DEF Save
  <2>2. OtherTypes'
    BY <1>3, <1>t, <2>1 DEF Save, OtherTypes, docs, flags, table
  <2>3. d \in Doc
    BY <1>t, <2>1 DEF OtherTypes
  <2>4. UNCHANGED <<table, mirror>>
    BY <1>3 DEF Save
  <2>5. QED
    BY <1>0, <2>1, <2>2, <2>3, <2>4, JobBegins DEF JobNames
<1>4. CASE CloseDocument
  <2>1. PICK d \in listed :
          /\ pendingOpen' = pendingOpen \ {d}
          /\ Moves(UI, IF d \in opened THEN Job(UI, "close", d)
                       ELSE [Job(UI, "close", d) EXCEPT !.pc = "forget"])
          /\ OvertakesOpen(d)
    BY <1>4 DEF CloseDocument
  <2>2. lapses' \subseteq AnyLapse
    BY <1>t, <2>1 DEF OvertakesOpen, Happens, OtherTypes, AnyLapse
  <2>3. OtherTypes'
    BY <1>4, <1>t, <2>1, <2>2 DEF CloseDocument, OtherTypes, docs, table
  <2>4. d \in Doc
    BY <1>t, <2>1 DEF OtherTypes
  <2>5. UNCHANGED <<table, mirror>>
    BY <1>4 DEF CloseDocument
  <2>6. \/ Moves(UI, Job(UI, "close", d))
        \/ Moves(UI, [Job(UI, "close", d) EXCEPT !.pc = "forget"])
    BY <2>1
  <2>7. QED
    BY <1>0, <2>3, <2>4, <2>5, <2>6, JobBegins DEF JobNames
<1>5. QED
  BY <1>1, <1>2, <1>3, <1>4

LEMMA ThreadBeginsOK ==
  ASSUME LspSyncAssumption, ProcessInv, NEW t \in Thread,
         \/ NextDocument(t)
         \/ t = Startup /\ WorkspaceServers
         \/ t \in Worker /\ Ask(t)
  PROVE  ProcessInv'
<1>t. OtherTypes
  BY DEF ProcessInv, LspStrongType, OtherTypes
<1>r. threads[t] \in ThreadType /\ JobOK(t, threads[t])
  BY ThreadsHaveTypes
<1>q. threads[t].queue \in Seq(Doc)
  BY <1>r DEF ThreadType
<1>1. CASE NextDocument(t)
  <2> DEFINE d == Head(threads[t].queue)
             q == Tail(threads[t].queue)
  <2>1. At(t, "idle") /\ d \in Doc /\ q \in Seq(Doc)
    BY <1>1, <1>q DEF NextDocument
  <2>2. OtherTypes'
    BY <1>1, <1>t DEF NextDocument, OtherTypes, docs, table
  <2>3. UNCHANGED <<table, mirror>>
    BY <1>1 DEF NextDocument
  <2>4. CASE Moves(t, [Job(t, "open", d) EXCEPT !.queue = q])
    <3> HIDE DEF d, q
    <3>1. QED
      BY <2>1, <2>2, <2>3, <2>4, JobBegins DEF JobNames
  <2>5. CASE Moves(t, [threads[t] EXCEPT !.queue = q])
    <3> DEFINE r == [threads[t] EXCEPT !.queue = q]
    <3>1. /\ r \in ThreadType /\ JobOK(t, r) /\ r.pc = "idle"
          /\ r.out = threads[t].out
      BY <1>r, <2>1 DEF ThreadType, JobOK, At
    <3>2. Moves(t, r)
      BY <2>5
    <3> HIDE DEF r, d, q
    <3>3. \A s \in Server : r.out[s] <= born[s]
      BY <3>1, ThreadsHaveTypes
    <3>4. ~Reloads(t)
      BY <2>1 DEF Reloads, At
    <3>5. QED
      BY <2>2, <2>3, <3>1, <3>2, <3>3, <3>4, QuietStep
  <2>6. Job(t, "open", d).queue = threads[t].queue
    BY <1>r, <2>1, JobFields DEF JobNames
  <2>7. QED
    BY <1>1, <2>4, <2>5, <2>6 DEF NextDocument
<1>2. CASE t = Startup /\ WorkspaceServers
  <2>1. PICK d \in Doc \cup {Elsewhere} : Moves(t, Job(t, "workspace", d))
    BY <1>2 DEF WorkspaceServers
  <2>2. OtherTypes' /\ UNCHANGED <<table, mirror>> /\ At(t, "idle")
    BY <1>2, <1>t DEF WorkspaceServers, OtherTypes, docs, flags, table
  <2>3. QED
    BY <1>2, <1>q, <2>1, <2>2, JobBegins DEF JobNames
<1>3. CASE t \in Worker /\ Ask(t)
  <2>1. PICK d \in Doc \ fresh : Moves(t, Job(t, "ask", d))
    BY <1>3 DEF Ask
  <2>2. OtherTypes' /\ UNCHANGED <<table, mirror>> /\ At(t, "idle")
    BY <1>3, <1>t DEF Ask, OtherTypes, docs, flags, table
  <2>3. QED
    BY <1>3, <1>q, <2>1, <2>2, JobBegins DEF JobNames
<1>4. QED
  BY <1>1, <1>2, <1>3

\* A thread goes on with what it has found.
LEMMA LooksFurther ==
  ASSUME LspSyncAssumption, ProcessInv, NEW t \in Thread,
         \/ FindClient(t) \/ Restarted(t) \/ NobodyToTell(t)
         \/ OpenedAlready(t) \/ ClaimOpen(t) \/ Snapshot(t)
  PROVE  ProcessInv'
<1>t. OtherTypes
  BY DEF ProcessInv, LspStrongType, OtherTypes
<1>r. /\ threads[t] \in ThreadType /\ JobOK(t, threads[t])
      /\ \A s \in Server : threads[t].out[s] <= born[s]
      /\ \A s \in Server : NoClients[s] <= born[s]
  BY ThreadsHaveTypes
<1>p. ~Reloads(t) /\ UNCHANGED <<table, mirror>>
  BY DEF FindClient, Restarted, NobodyToTell, OpenedAlready, ClaimOpen,
         Snapshot, LookedUp, Reloads, At
<1>o. SUFFICES
        /\ OtherTypes'
        /\ \E r \in ThreadType :
             /\ Moves(t, r) /\ JobOK(t, r)
             /\ r.pc \notin {"starting", "resetting", "reloading"}
             /\ \A s \in Server : r.out[s] <= born[s]
  BY <1>p, QuietStep
<1>1. CASE FindClient(t)
  <2> DEFINE k == IF JobOf(t) = "workspace" THEN 0 ELSE clients[Wanted(t)]
  <2>1. /\ threads[t].todo # << >> /\ At(t, "lookup") /\ Moves(t, Found(t, k))
    BY <1>1 DEF FindClient
  <2>2. Wanted(t) \in Server
    BY <1>r, <2>1 DEF ThreadType, Wanted
  <2>3. k \in Nat /\ k <= born[Wanted(t)]
    BY <1>t, <2>2 DEF OtherTypes, ProcessInv, NumbersGrow
  <2>4. JobOf(t) = "workspace" => k = 0
    OBVIOUS
  <2> HIDE DEF k
  <2> DEFINE r == Found(t, k)
  <2>5. /\ r \in ThreadType /\ r.pc = "lookup" /\ r.job = threads[t].job
        /\ r.doc = threads[t].doc /\ r.must = threads[t].must
        /\ r.out = [threads[t].out EXCEPT ![Wanted(t)] = k]
    BY <1>r, <2>1, <2>3, FoundFields
  <2>6. threads[t].out \in [Server -> Nat]
    BY <1>r DEF ThreadType
  <2>7. \A s \in Server : r.out[s] <= born[s]
    BY <1>r, <2>2, <2>3, <2>5, <2>6
  <2>8. JobOf(t) = "workspace" => r.out = NoClients
    BY <1>r, <2>1, <2>2, <2>4, <2>5, <2>6, NoClientsType
       DEF JobOK, At, JobOf, NoClients
  <2> HIDE DEF r
  <2>9. JobOK(t, r)
    BY <1>r, <2>1, <2>5, <2>8 DEF JobOK, At, JobOf
  <2>10. OtherTypes'
    BY <1>1, <1>t DEF FindClient, OtherTypes, docs, flags, table
  <2>11. Moves(t, r)
    BY <2>1 DEF r
  <2>12. QED
    BY <2>5, <2>7, <2>9, <2>10, <2>11
<1>2. CASE Restarted(t)
  <2>1. /\ At(t, "lookup") /\ threads[t].must # {}
        /\ Moves(t, [Job(t, "restart", DocOf(t)) EXCEPT
                       !.must = {}, !.out = NoClients])
    BY <1>2 DEF Restarted
  <2>2. JobOf(t) = "restart" /\ DocOf(t) \in Doc
    BY <1>r, <2>1 DEF JobOK, JobOf, DocOf
  <2> DEFINE j == Job(t, "restart", DocOf(t))
             r == [j EXCEPT !.must = {}, !.out = NoClients]
  <2>3. /\ j \in ThreadType /\ j.pc = "lookup" /\ j.job = "restart"
        /\ j.doc = DocOf(t)
    BY <1>r, <2>2, JobFields DEF JobNames
  <2>4. Moves(t, r)
    BY <2>1
  <2> HIDE DEF j
  <2>5. /\ r \in ThreadType /\ r.pc = "lookup" /\ r.job = "restart"
        /\ r.doc = DocOf(t) /\ r.must = {} /\ r.out = NoClients
    BY <2>3, NoClientsType DEF ThreadType
  <2> HIDE DEF r
  <2>6. JobOK(t, r)
    BY <1>r, <2>1, <2>2, <2>5 DEF JobOK, JobOf, DocOf
  <2>7. OtherTypes'
    BY <1>2, <1>t DEF Restarted, OtherTypes, docs, flags, table
  <2>8. QED
    BY <1>r, <2>4, <2>5, <2>6, <2>7
<1>3. CASE NobodyToTell(t)
  <2>0. At(t, "lookup") /\ threads[t].must = {}
    BY <1>3 DEF NobodyToTell, LookedUp
  <2>j. JobOf(t) \in JobNames \ {"none"}
    BY <1>r, <2>0 DEF ThreadType, JobOf, JobOK, At
  <2>1. OtherTypes'
    BY <1>3, <1>t DEF NobodyToTell, OtherTypes, docs, flags, table
  <2>2. CASE JobOf(t) = "close"
    <3> DEFINE r == [threads[t] EXCEPT !.pc = "forget"]
    <3>1. Moves(t, r)
      BY <1>3, <2>2 DEF NobodyToTell
    <3>2. r \in ThreadType /\ JobOK(t, r) /\ r.pc = "forget"
          /\ r.out = threads[t].out
      BY <1>r, <2>0, <2>2 DEF ThreadType, JobOK, JobOf, PcNames, At
    <3> HIDE DEF r
    <3>3. QED
      BY <1>r, <2>1, <3>1, <3>2
  <2>3. CASE JobOf(t) = "workspace"
    <3> DEFINE r == [Idle EXCEPT !.pc = "halted"]
    <3>1. Moves(t, r)
      BY <1>3, <2>3 DEF NobodyToTell
    <3>2. r \in ThreadType /\ JobOK(t, r) /\ r.pc = "halted"
          /\ r.out = NoClients
      BY IdleFields DEF ThreadType, JobOK, PcNames
    <3> HIDE DEF r
    <3>3. QED
      BY <1>r, <2>1, <3>1, <3>2
  <2>4. CASE JobOf(t) \notin {"close", "workspace"}
    <3>1. Moves(t, Over(t))
      BY <1>3, <2>4 DEF NobodyToTell
    <3>2. JobOK(t, Over(t))
      BY <1>r, OverFields DEF JobOK
    <3>3. QED
      BY <1>r, <2>1, <3>1, <3>2, OverFields
  <2>5. QED
    BY <2>2, <2>3, <2>4
<1>4. CASE OpenedAlready(t)
  <2>0. At(t, "lookup") /\ threads[t].must = {} /\ threads[t].todo = << >>
        /\ threads[t].out # NoClients
    BY <1>4 DEF OpenedAlready, LookedUp
  <2>1. JobOf(t) \notin {"none", "workspace"}
    BY <1>r, <2>0 DEF JobOK, JobOf, At
  <2>2. OtherTypes'
    BY <1>4, <1>t DEF OpenedAlready, OtherTypes, docs, flags, table
  <2>3. Moves(t, AfterOpen(t))
    BY <1>4 DEF OpenedAlready
  <2>4. /\ AfterOpen(t) \in ThreadType /\ JobOK(t, AfterOpen(t))
        /\ AfterOpen(t).pc \in {"tell", "request", "idle"}
        /\ AfterOpen(t).out \in {threads[t].out, NoClients}
    <3>1. CASE JobOf(t) \in {"change", "close", "restart"}
      <4>1. AfterOpen(t) = [threads[t] EXCEPT !.pc = "tell"]
        BY <1>r, <2>1, <3>1, AfterOpenFields
      <4>2. QED
        BY <1>r, <2>0, <3>1, <4>1 DEF JobOK, JobOf, ThreadType, At, PcNames
    <3>2. CASE JobOf(t) = "ask"
      <4>1. AfterOpen(t) = [threads[t] EXCEPT !.pc = "request"]
        BY <1>r, <2>1, <3>2, AfterOpenFields
      <4>2. QED
        BY <1>r, <2>0, <3>2, <4>1 DEF JobOK, JobOf, ThreadType, At, PcNames
    <3>3. CASE JobOf(t) = "open"
      BY <1>r, <2>1, <3>3, AfterOpenFields, OverFields DEF JobOK
    <3>4. QED
      BY <1>r, <2>1, <3>1, <3>2, <3>3 DEF ThreadType, JobNames, JobOf
  <2>5. QED
    BY <1>r, <2>2, <2>3, <2>4
<1>5. CASE ClaimOpen(t)
  <2>0. At(t, "lookup") /\ threads[t].must = {} /\ threads[t].todo = << >>
        /\ threads[t].out # NoClients
    BY <1>5 DEF ClaimOpen, LookedUp
  <2>1. JobOf(t) \notin {"none", "workspace"} /\ DocOf(t) \in Doc
    BY <1>r, <2>0 DEF JobOK, JobOf, At, DocOf
  <2>2. lapses' \subseteq AnyLapse
    BY <1>5, <1>t DEF ClaimOpen, ClaimLapses, Happens, OtherTypes
  <2>3. OtherTypes'
    BY <1>5, <1>t, <2>1, <2>2 DEF ClaimOpen, OtherTypes, docs, table
  <2> DEFINE r == [threads[t] EXCEPT !.pc = "snapshot"]
  <2>4. Moves(t, r)
    BY <1>5 DEF ClaimOpen
  <2>5. r \in ThreadType /\ JobOK(t, r) /\ r.pc = "snapshot"
        /\ r.out = threads[t].out
    BY <1>r, <2>0, <2>1 DEF ThreadType, JobOK, JobOf, PcNames, At
  <2> HIDE DEF r
  <2>6. QED
    BY <1>r, <2>3, <2>4, <2>5
<1>6. CASE Snapshot(t)
  <2>0. At(t, "snapshot") /\ JobOf(t) \notin {"none", "workspace"}
        /\ DocOf(t) \in Doc
    BY <1>6, <1>r DEF Snapshot, JobOK, JobOf, DocOf, At
  <2>1. OtherTypes'
    BY <1>6, <1>t DEF Snapshot, OtherTypes, docs, flags, table
  <2> DEFINE r == [threads[t] EXCEPT !.pc = "opening",
                                     !.snap = version[DocOf(t)]]
  <2>2. Moves(t, r)
    BY <1>6 DEF Snapshot
  <2>3. version[DocOf(t)] \in Nat
    BY <1>t, <2>0 DEF OtherTypes
  <2>4. r \in ThreadType /\ JobOK(t, r) /\ r.pc = "opening"
        /\ r.out = threads[t].out
    BY <1>r, <2>0, <2>3 DEF ThreadType, JobOK, JobOf, PcNames, At
  <2> HIDE DEF r
  <2>5. QED
    BY <1>r, <2>1, <2>2, <2>4
<1>7. QED
  BY <1>1, <1>2, <1>3, <1>4, <1>5, <1>6

(***************************************************************************)
(* The messages.                                                           *)
(***************************************************************************)

\* What the servers of the thread have of its document is set to f.
Sends(t, f) ==
  mirror' = [s \in Server |->
               IF s \in Reached(t)
               THEN [mirror[s] EXCEPT ![DocOf(t)] = f[s]] ELSE mirror[s]]

LEMMA SendsType ==
  ASSUME mirror \in [Server -> [Doc -> Int]], NEW t \in Thread,
         DocOf(t) \in Doc, NEW f \in [Server -> Int], Sends(t, f)
  PROVE  /\ mirror' \in [Server -> [Doc -> Int]]
         /\ \A s \in Server : s \notin Reached(t) => mirror'[s] = mirror[s]
         /\ \A s \in Server : ~Live(s) => mirror'[s] = mirror[s]
         /\ \A s \in Server, d \in Doc :
              mirror'[s][d] = IF s \in Reached(t) /\ d = DocOf(t)
                              THEN f[s] ELSE mirror[s][d]
BY DEF Sends, Reached

LEMMA DidOpenType ==
  ASSUME NEW v \in Nat, NEW m \in Int
  PROVE  DidOpen(v, m) \in Int
BY DEF DidOpen, Broken, Closed

LEMMA DidCloseType ==
  ASSUME NEW m \in Int
  PROVE  DidClose(m) \in Int
BY DEF DidClose, Broken, Closed

LEMMA DidChangeType ==
  ASSUME NEW s \in Server, NEW v \in Nat, NEW m \in Int
  PROVE  /\ DidChange(s, v, m) \in Int
         /\ m = Closed => DidChange(s, v, m) = Broken
         /\ m # Closed /\ s \in FullSync => DidChange(s, v, m) = v
         /\ m # Closed /\ s \notin FullSync =>
              DidChange(s, v, m) = IF m = v - 1 THEN v ELSE Broken
<1>1. CASE m = Closed
  BY <1>1 DEF DidChange, Broken, Closed
<1>2. CASE m # Closed /\ s \in FullSync
  BY <1>2 DEF DidChange, Broken, Closed
<1>3. CASE m # Closed /\ s \notin FullSync
  BY <1>3 DEF DidChange, Broken, Closed
<1>4. QED
  BY <1>1, <1>2, <1>3

\* The four messages as such settings.
Opens(t) == [s \in Server |-> DidOpen(threads[t].snap, mirror[s][DocOf(t)])]
Changes(t) ==
  [s \in Server |-> DidChange(s, version[DocOf(t)], mirror[s][DocOf(t)])]
Closes(t) == [s \in Server |-> DidClose(mirror[s][DocOf(t)])]
Reopens(t) ==
  [s \in Server |-> DidOpen(version[DocOf(t)], mirror[s][DocOf(t)])]

LEMMA MessagesType ==
  ASSUME ProcessInv, NEW t \in Thread, DocOf(t) \in Doc
  PROVE  /\ Opens(t) \in [Server -> Int] /\ Changes(t) \in [Server -> Int]
         /\ Closes(t) \in [Server -> Int] /\ Reopens(t) \in [Server -> Int]
<1>1. threads[t].snap \in Nat /\ version[DocOf(t)] \in Nat
  BY ThreadsHaveTypes DEF ThreadType, ProcessInv, LspStrongType
<1>2. \A s \in Server : mirror[s][DocOf(t)] \in Int
  BY DEF ProcessInv, LspStrongType
<1>3. QED
  BY <1>1, <1>2, DidOpenType, DidChangeType, DidCloseType
     DEF Opens, Changes, Closes, Reopens

LEMMA MessagesAreSent ==
  ASSUME ProcessInv, NEW t \in Thread
  PROVE  /\ SendOpen(t) /\ DocOf(t) \in Doc => Sends(t, Opens(t))
         /\ SendOpen(t) /\ DocOf(t) \notin Doc => mirror' = mirror
         /\ TellChange(t) /\ DocOf(t) \in Doc => Sends(t, Changes(t))
         /\ TellClosed(t) /\ DocOf(t) \in Doc => Sends(t, Closes(t))
         /\ TellReopened(t) /\ DocOf(t) \in Doc => Sends(t, Reopens(t))
<1>1. ASSUME SendOpen(t), DocOf(t) \notin Doc
      PROVE  mirror' = mirror
  <2>1. mirror \in [Server -> [Doc -> Int]]
    BY DEF ProcessInv, LspStrongType
  <2>2. mirror' = [s \in Server |-> mirror[s]]
    BY <1>1 DEF SendOpen, Tells
  <2>3. QED
    BY <2>1, <2>2
<1>2. ASSUME DocOf(t) \in Doc
      PROVE  /\ SendOpen(t) => Sends(t, Opens(t))
             /\ TellChange(t) => Sends(t, Changes(t))
             /\ TellClosed(t) => Sends(t, Closes(t))
             /\ TellReopened(t) => Sends(t, Reopens(t))
  <2>1. SendOpen(t) => Sends(t, Opens(t))
    BY <1>2 DEF SendOpen, Tells, Sends, Opens
  <2>2. TellChange(t) => Sends(t, Changes(t))
    BY <1>2 DEF TellChange, Tells, Sends, Changes
  <2>3. TellClosed(t) => Sends(t, Closes(t))
    BY <1>2 DEF TellClosed, Tells, Sends, Closes
  <2>4. TellReopened(t) => Sends(t, Reopens(t))
    BY <1>2 DEF TellReopened, Tells, Sends, Reopens
  <2>5. QED
    BY <2>1, <2>2, <2>3, <2>4
<1>3. QED
  BY <1>1, <1>2

LEMMA MessagesOK ==
  ASSUME LspSyncAssumption, ProcessInv, NEW t \in Thread,
         \/ SendOpen(t) \/ TellChange(t) \/ TellClosed(t)
         \/ TellReopened(t) \/ Forget(t)
  PROVE  ProcessInv'
<1>t. OtherTypes
  BY DEF ProcessInv, LspStrongType, OtherTypes
<1>r. /\ threads[t] \in ThreadType /\ JobOK(t, threads[t])
      /\ \A s \in Server : threads[t].out[s] <= born[s]
      /\ \A s \in Server : NoClients[s] <= born[s]
  BY ThreadsHaveTypes
<1>p. ~Reloads(t) /\ UNCHANGED table
  BY DEF SendOpen, TellChange, TellClosed, TellReopened, Forget, Reloads, At
<1>o. SUFFICES
        /\ OtherTypes'
        /\ \A s \in Server : ~Live(s) => mirror'[s] = mirror[s]
        /\ \E r \in ThreadType :
             /\ Moves(t, r) /\ JobOK(t, r)
             /\ r.pc \notin {"starting", "resetting", "reloading"}
             /\ \A s \in Server : r.out[s] <= born[s]
  BY <1>p, QuietStep
<1>e. JobOK(t, Over(t)) /\ Over(t) \in ThreadType /\ Over(t).pc = "idle"
      /\ Over(t).out = NoClients
  BY <1>r, OverFields DEF JobOK
<1>m. ASSUME mirror' \in [Server -> [Doc -> Int]],
             UNCHANGED <<docs, flags, table>>, lapses' \subseteq AnyLapse
      PROVE  OtherTypes'
  BY <1>m, <1>t DEF OtherTypes, docs, flags, table
<1>1. CASE SendOpen(t)
  <2>0. At(t, "opening") /\ JobOf(t) # "none"
        /\ (JobOf(t) # "workspace" => DocOf(t) \in Doc)
        /\ threads[t].must = {}
    BY <1>r, <1>1 DEF SendOpen, JobOK, JobOf, At, DocOf
  <2>1. /\ mirror' \in [Server -> [Doc -> Int]]
        /\ \A s \in Server : ~Live(s) => mirror'[s] = mirror[s]
    <3>1. CASE DocOf(t) \in Doc
      BY <1>1, <1>t, <3>1, MessagesType, MessagesAreSent, SendsType
         DEF OtherTypes
    <3>2. CASE DocOf(t) \notin Doc
      BY <1>1, <1>t, <3>2, MessagesAreSent DEF OtherTypes
    <3>3. QED
      BY <3>1, <3>2
  <2>2. lapses' \subseteq AnyLapse
    BY <1>1, <1>t DEF SendOpen, Happens, OtherTypes, AnyLapse
  <2>3. OtherTypes'
    BY <1>1, <1>m, <2>1, <2>2 DEF SendOpen
  <2>4. Moves(t, AfterOpen(t))
    BY <1>1 DEF SendOpen
  <2>5. /\ AfterOpen(t) \in ThreadType /\ JobOK(t, AfterOpen(t))
        /\ AfterOpen(t).pc \notin {"starting", "resetting", "reloading"}
        /\ AfterOpen(t).out \in {threads[t].out, NoClients}
    <3>1. CASE JobOf(t) \in {"change", "close", "restart"}
      <4>0. threads[t].todo = << >>
        BY <1>r, <2>0, <3>1 DEF JobOK, JobOf, At
      <4>1. AfterOpen(t) = [threads[t] EXCEPT !.pc = "tell"]
        BY <1>r, <3>1, AfterOpenFields
      <4>2. QED
        BY <1>r, <2>0, <3>1, <4>0, <4>1
           DEF JobOK, JobOf, ThreadType, At, PcNames
    <3>2. CASE JobOf(t) = "ask"
      <4>1. AfterOpen(t) = [threads[t] EXCEPT !.pc = "request"]
        BY <1>r, <3>2, AfterOpenFields
      <4>2. QED
        BY <1>r, <2>0, <3>2, <4>1 DEF JobOK, JobOf, ThreadType, At, PcNames
    <3>3. CASE JobOf(t) = "open"
      BY <1>r, <1>e, <3>3, AfterOpenFields
    <3>4. CASE JobOf(t) = "workspace"
      <4>1. AfterOpen(t) =
              [threads[t] EXCEPT !.pc = "lookup", !.out = NoClients]
        BY <1>r, <3>4, AfterOpenFields
      <4>2. QED
        BY <1>r, <2>0, <3>4, <4>1, NoClientsType
           DEF JobOK, JobOf, ThreadType, At, PcNames
    <3>5. QED
      BY <1>r, <2>0, <3>1, <3>2, <3>3, <3>4 DEF ThreadType, JobNames, JobOf
  <2>6. QED
    BY <1>r, <2>1, <2>3, <2>4, <2>5
<1>2. CASE TellChange(t) \/ TellReopened(t)
  <2>0. DocOf(t) \in Doc
    BY <1>r, <1>2 DEF TellChange, TellReopened, JobOK, JobOf, At, DocOf
  <2>1. /\ mirror' \in [Server -> [Doc -> Int]]
        /\ \A s \in Server : ~Live(s) => mirror'[s] = mirror[s]
    BY <1>2, <1>t, <2>0, MessagesType, MessagesAreSent, SendsType
       DEF OtherTypes
  <2>2. lapses' \subseteq AnyLapse
    BY <1>2, <1>t DEF TellChange, TellReopened, Happens, OtherTypes, AnyLapse
  <2>3. OtherTypes'
    BY <1>2, <1>m, <2>1, <2>2 DEF TellChange, TellReopened
  <2>4. Moves(t, Over(t))
    BY <1>2 DEF TellChange, TellReopened
  <2>5. QED
    BY <1>r, <1>e, <2>1, <2>3, <2>4
<1>3. CASE TellClosed(t)
  <2>0. DocOf(t) \in Doc /\ threads[t].must = {}
    BY <1>r, <1>3 DEF TellClosed, JobOK, JobOf, At, DocOf
  <2>1. /\ mirror' \in [Server -> [Doc -> Int]]
        /\ \A s \in Server : ~Live(s) => mirror'[s] = mirror[s]
    BY <1>3, <1>t, <2>0, MessagesType, MessagesAreSent, SendsType
       DEF OtherTypes
  <2>2. OtherTypes'
    BY <1>3, <1>m, <1>t, <2>1 DEF TellClosed, OtherTypes
  <2> DEFINE r == [threads[t] EXCEPT !.pc = "forget"]
  <2>3. Moves(t, r)
    BY <1>3 DEF TellClosed
  <2>4. r \in ThreadType /\ JobOK(t, r) /\ r.pc = "forget"
        /\ r.out = threads[t].out
    BY <1>r, <1>3, <2>0 DEF TellClosed, ThreadType, JobOK, JobOf, PcNames, At
  <2> HIDE DEF r
  <2>5. QED
    BY <1>r, <2>1, <2>2, <2>3, <2>4
<1>4. CASE Forget(t)
  <2>1. OtherTypes' /\ mirror' = mirror /\ Moves(t, Over(t))
    BY <1>4, <1>t DEF Forget, OtherTypes, table
  <2>2. QED
    BY <1>r, <1>e, <2>1
<1>5. QED
  BY <1>1, <1>2, <1>3, <1>4

(***************************************************************************)
(* The table of clients.                                                   *)
(***************************************************************************)

LEMMA ProcessesHaveNumbers ==
  ASSUME ProcessInv
  PROVE  /\ \A p \in running : /\ p[1] \in Server /\ p[2] \in Nat
                              /\ p = <<p[1], p[2]>>
                              /\ 1 <= p[2] /\ p[2] <= born[p[1]]
         /\ \A s \in Server : /\ clients[s] \in Nat /\ born[s] \in Nat
                              /\ clients[s] <= born[s]
BY DEF ProcessInv, LspStrongType, NumbersGrow

\* What StopClients does to the processes and to what the servers know.
LEMMA StopsClients ==
  ASSUME ProcessInv, NEW S \in SUBSET Server, StopClients(S)
  PROVE  /\ clients' \in [Server -> Nat]
         /\ running' \subseteq running
         /\ mirror' \in [Server -> [Doc -> Int]]
         /\ \A s \in Server : clients'[s] = IF s \in S THEN 0 ELSE clients[s]
         /\ \A s \in S : mirror'[s] = NoTexts
         /\ \A s \in Server \ S : mirror'[s] = mirror[s]
         /\ \A s \in S : ~Live(s)'
         /\ \A s \in Server \ S : Live(s)' <=> Live(s)
         /\ \A p \in running' : clients[p[1]] = p[2] => p[1] \notin S
<1>1. NoTexts \in [Doc -> Int]
  BY DEF NoTexts, Closed
<1>2. /\ clients \in [Server -> Nat] /\ running \subseteq Server \X Nat
      /\ mirror \in [Server -> [Doc -> Int]]
  BY DEF ProcessInv, LspStrongType
<1>3. /\ clients' = [s \in Server |-> IF s \in S THEN 0 ELSE clients[s]]
      /\ running' = {p \in running :
                       p # <<p[1], clients[p[1]]>> \/ p[1] \notin S}
      /\ mirror' = [s \in Server |-> IF s \in S THEN NoTexts ELSE mirror[s]]
  BY DEF StopClients
<1>4. \A p \in running : p = <<p[1], p[2]>> /\ 1 <= p[2]
  BY <1>2 DEF ProcessInv, NumbersGrow
<1>5. \A s \in S : ~Live(s)'
  BY <1>3, <1>4 DEF Live
<1>6. \A s \in Server \ S : Live(s)' <=> Live(s)
  BY <1>3 DEF Live
<1>7. QED
  BY <1>1, <1>2, <1>3, <1>4, <1>5, <1>6

LEMMA StopOK ==
  ASSUME LspSyncAssumption, ProcessInv, StopLanguageServers
  PROVE  ProcessInv'
<1>t. OtherTypes
  BY DEF ProcessInv, LspStrongType, OtherTypes
<1>1. PICK S \in SUBSET Server : StopClients(S)
  BY DEF StopLanguageServers
<1>2. UNCHANGED <<docs, flags, born, starting, threads, lapses>>
  BY DEF StopLanguageServers
<1>3. threads' = threads /\ born' = born /\ starting' = starting
  BY <1>2
<1>4. /\ clients' \in [Server -> Nat] /\ running' \subseteq running
      /\ mirror' \in [Server -> [Doc -> Int]]
      /\ \A s \in Server : clients'[s] = IF s \in S THEN 0 ELSE clients[s]
      /\ \A s \in S : mirror'[s] = NoTexts
      /\ \A s \in Server \ S : mirror'[s] = mirror[s]
      /\ \A s \in S : ~Live(s)'
      /\ \A s \in Server \ S : Live(s)' <=> Live(s)
      /\ \A p \in running' : clients[p[1]] = p[2] => p[1] \notin S
  BY <1>1, StopsClients
<1>5. ~Reloads(UI) /\ ~Reloads(UI)'
  BY <1>3 DEF StopLanguageServers, Ready, Reloads, At
<1>6. OtherTypes'
  BY <1>t, <1>2, <1>4 DEF OtherTypes, docs, flags
<1>7. threads' \in [Thread -> ThreadType] /\ JobsFit'
  BY <1>3 DEF ProcessInv, LspStrongType, JobsFit
<1>8. NumbersGrow'
  <2>1. ASSUME NEW s \in Server
        PROVE  clients'[s] <= born'[s]
    <3>1. /\ clients[s] \in Nat /\ born[s] \in Nat
          /\ clients[s] <= born[s]
      BY ProcessesHaveNumbers
    <3>2. born'[s] = born[s] /\ clients'[s] \in {0, clients[s]}
      BY <1>3, <1>4
    <3>3. QED
      BY <3>1, <3>2
  <2>2. \A p \in running' : 1 <= p[2] /\ p[2] <= born'[p[1]]
    BY <1>3, <1>4, ProcessesHaveNumbers
  <2>3. \A u \in Thread, s \in Server : threads'[u].out[s] <= born'[s]
    BY <1>3 DEF ProcessInv, NumbersGrow
  <2>4. QED
    BY <1>5, <2>1, <2>2, <2>3 DEF NumbersGrow
<1>9. LockIsHeld'
  <2>1. \A u \in Thread : At(u, "starting") => Wanted(u) \in Server
    BY ThreadsHaveTypes DEF At, JobOK, Wanted, ThreadType
  <2>2. QED
    BY <1>3, <1>4, <2>1 DEF ProcessInv, LockIsHeld, At, Wanted
<1>10. OnlyTheLiveKnow'
  BY <1>4 DEF ProcessInv, OnlyTheLiveKnow
<1>11. NoOrphans'
  BY <1>t, <1>4, <1>5 DEF ProcessInv, NoOrphans, OtherTypes
<1>12. QED
  BY <1>6, <1>7, <1>8, <1>9, <1>10, <1>11, FromParts

LEMMA RestartOK ==
  ASSUME LspSyncAssumption, ProcessInv, RestartLanguageServers
  PROVE  ProcessInv'
<1>t. OtherTypes
  BY DEF ProcessInv, LspStrongType, OtherTypes
<1>u. UI \in Thread /\ At(UI, "idle")
  BY ReadyIsIdle DEF RestartLanguageServers
<1>r. /\ threads[UI] \in ThreadType /\ JobOK(UI, threads[UI])
      /\ \A s \in Server : threads[UI].out[s] <= born[s]
  BY <1>u, ThreadsHaveTypes
<1>1. PICK d \in listed, S \in (SUBSET Server) \ {{}} :
        /\ StopClients(S)
        /\ \E q \in Orders(S) :
             Moves(UI, [Job(UI, "restart", d) EXCEPT !.must = S, !.todo = q])
        /\ OvertakesOpen(d)
  BY DEF RestartLanguageServers
<1>2. PICK q \in Orders(S) :
        Moves(UI, [Job(UI, "restart", d) EXCEPT !.must = S, !.todo = q])
  BY <1>1
<1>3. /\ UNCHANGED <<docs, flags, born, starting>>
      /\ born' = born /\ starting' = starting
  BY DEF RestartLanguageServers
<1>4. /\ clients' \in [Server -> Nat] /\ running' \subseteq running
      /\ mirror' \in [Server -> [Doc -> Int]]
      /\ \A s \in Server : clients'[s] = IF s \in S THEN 0 ELSE clients[s]
      /\ \A s \in S : mirror'[s] = NoTexts
      /\ \A s \in Server \ S : mirror'[s] = mirror[s]
      /\ \A s \in S : ~Live(s)'
      /\ \A s \in Server \ S : Live(s)' <=> Live(s)
      /\ \A p \in running' : clients[p[1]] = p[2] => p[1] \notin S
  BY <1>1, StopsClients
<1>5. q \in Seq(Server)
  <2>1. IsFiniteSet(S)
    BY ServersAreFinite
  <2>2. q \in Seq(S)
    BY <2>1, OrdersAreSequences
  <2>3. QED
    BY <2>2
<1> DEFINE j == Job(UI, "restart", d)
           r == [j EXCEPT !.must = S, !.todo = q]
<1>6. d \in Doc
  BY <1>t DEF OtherTypes
<1>7. /\ j \in ThreadType /\ j.pc = "lookup" /\ j.job = "restart"
      /\ j.doc = d /\ j.out = threads[UI].out
  BY <1>r, <1>u, <1>6, JobFields DEF JobNames
<1>8. Moves(UI, r)
  BY <1>2
<1> HIDE DEF j
<1>9. /\ r \in ThreadType /\ r.pc = "lookup" /\ r.job = "restart" /\ r.doc = d
      /\ r.out = threads[UI].out
  BY <1>5, <1>7 DEF ThreadType
<1> HIDE DEF r
<1>10. JobOK(UI, r)
  BY <1>6, <1>9 DEF JobOK
<1>11. /\ threads' \in [Thread -> ThreadType] /\ threads'[UI] = r
       /\ \A u \in Thread \ {UI} : threads'[u] = threads[u]
  BY <1>u, <1>8, <1>9, OneMoves DEF ProcessInv, LspStrongType
<1>12. /\ ~Reloads(UI) /\ ~Reloads(UI)'
  BY <1>u, <1>9, <1>11 DEF Reloads, At
<1>13. OtherTypes'
  <2>1. lapses' \subseteq AnyLapse
    BY <1>t, <1>1 DEF OvertakesOpen, Happens, OtherTypes, AnyLapse
  <2>2. QED
    BY <1>t, <1>3, <1>4, <2>1 DEF OtherTypes, docs, flags
<1>14. JobsFit'
  BY <1>10, <1>11 DEF ProcessInv, JobsFit
<1>15. NumbersGrow'
  <2>1. ASSUME NEW s \in Server
        PROVE  clients'[s] <= born'[s]
    <3>1. /\ clients[s] \in Nat /\ born[s] \in Nat
          /\ clients[s] <= born[s]
      BY ProcessesHaveNumbers
    <3>2. born'[s] = born[s] /\ clients'[s] \in {0, clients[s]}
      BY <1>3, <1>4
    <3>3. QED
      BY <3>1, <3>2
  <2>2. \A p \in running' : 1 <= p[2] /\ p[2] <= born'[p[1]]
    BY <1>3, <1>4, ProcessesHaveNumbers
  <2>3. \A u \in Thread, s \in Server : threads'[u].out[s] <= born'[s]
    BY <1>3, <1>r, <1>9, <1>11 DEF ProcessInv, NumbersGrow
  <2>4. QED
    BY <1>12, <2>1, <2>2, <2>3 DEF NumbersGrow
<1>16. LockIsHeld'
  <2>1. \A u \in Thread : At(u, "starting") => Wanted(u) \in Server
    BY ThreadsHaveTypes DEF At, JobOK, Wanted, ThreadType
  <2>2. SUFFICES ASSUME NEW u \in Thread, At(u, "starting")'
                 PROVE  (starting = u /\ clients[Wanted(u)] = 0)'
    BY DEF LockIsHeld
  <2>3. threads'[u] = threads[u] /\ At(u, "starting")
    BY <1>9, <1>11, <2>2 DEF At
  <2>4. starting = u /\ clients[Wanted(u)] = 0 /\ Wanted(u) \in Server
    BY <2>1, <2>3 DEF ProcessInv, LockIsHeld
  <2>5. QED
    BY <1>3, <1>4, <2>3, <2>4 DEF Wanted
<1>17. OnlyTheLiveKnow'
  BY <1>4 DEF ProcessInv, OnlyTheLiveKnow
<1>18. NoOrphans'
  BY <1>t, <1>4, <1>12 DEF ProcessInv, NoOrphans, OtherTypes
<1>19. QED
  BY <1>11, <1>13, <1>14, <1>15, <1>16, <1>17, <1>18, FromParts

LEMMA ReloadOK ==
  ASSUME LspSyncAssumption, ProcessInv, ReloadConfig
  PROVE  ProcessInv'
<1>t. OtherTypes
  BY DEF ProcessInv, LspStrongType, OtherTypes
<1>u. UI \in Thread /\ At(UI, "idle")
  BY ReadyIsIdle DEF ReloadConfig
<1>1. /\ clients' = NoClients /\ mirror' = [s \in Server |-> NoTexts]
      /\ Moves(UI, [Idle EXCEPT !.pc = "resetting", !.out = clients])
      /\ UNCHANGED <<docs, flags, born, running, starting, lapses>>
  BY DEF ReloadConfig
<1> DEFINE r == [Idle EXCEPT !.pc = "resetting", !.out = clients]
<1>2. r \in ThreadType /\ JobOK(UI, r) /\ r.pc = "resetting" /\ r.out = clients
  BY <1>t, IdleFields DEF ThreadType, PcNames, JobOK, OtherTypes
<1>3. Moves(UI, r)
  BY <1>1
<1> HIDE DEF r
<1>4. /\ threads' \in [Thread -> ThreadType] /\ threads'[UI] = r
      /\ \A u \in Thread \ {UI} : threads'[u] = threads[u]
  BY <1>u, <1>2, <1>3, OneMoves DEF ProcessInv, LspStrongType
<1>5. NoTexts \in [Doc -> Int]
  BY DEF NoTexts, Closed
<1>6. OtherTypes'
  BY <1>t, <1>1, <1>5, NoClientsType DEF OtherTypes, docs, flags
<1>7. JobsFit'
  BY <1>2, <1>4 DEF ProcessInv, JobsFit
<1>8. \A s \in Server : ~Live(s)'
  BY <1>1, NoClientsType DEF Live, ProcessInv, NumbersGrow
<1>9. NumbersGrow'
  <2>1. \A s \in Server : clients'[s] <= born'[s]
    BY <1>t, <1>1, NoClientsType DEF OtherTypes
  <2>2. \A p \in running' : 1 <= p[2] /\ p[2] <= born'[p[1]]
    BY <1>1 DEF ProcessInv, NumbersGrow
  <2>3. \A u \in Thread, s \in Server : threads'[u].out[s] <= born'[s]
    BY <1>1, <1>2, <1>4 DEF ProcessInv, NumbersGrow
  <2>4. QED
    BY <1>8, <2>1, <2>2, <2>3 DEF NumbersGrow
<1>10. LockIsHeld'
  <2>1. \A u \in Thread : At(u, "starting") => Wanted(u) \in Server
    BY ThreadsHaveTypes DEF At, JobOK, Wanted, ThreadType
  <2>2. QED
    BY <1>1, <1>2, <1>4, <2>1, NoClientsType
       DEF ProcessInv, LockIsHeld, At, Wanted
<1>11. OnlyTheLiveKnow'
  BY <1>1 DEF OnlyTheLiveKnow
<1>12. NoOrphans'
  <2>1. ~Reloads(UI)
    BY <1>u DEF Reloads, At
  <2>2. Reloads(UI)'
    BY <1>2, <1>4 DEF Reloads, At
  <2>3. \A p \in running' : threads'[UI].out[p[1]] = p[2]
    BY <1>1, <1>2, <1>4, <2>1 DEF ProcessInv, NoOrphans
  <2>4. QED
    BY <2>2, <2>3 DEF NoOrphans
<1>13. QED
  BY <1>4, <1>6, <1>7, <1>9, <1>10, <1>11, <1>12, FromParts

LEMMA ResetOK ==
  ASSUME LspSyncAssumption, ProcessInv, NEW t \in Thread, ResetDocuments(t)
  PROVE  ProcessInv'
<1>t. OtherTypes
  BY DEF ProcessInv, LspStrongType, OtherTypes
<1>r. /\ threads[t] \in ThreadType /\ JobOK(t, threads[t])
      /\ \A s \in Server : threads[t].out[s] <= born[s]
      /\ threads[t].pc = "resetting"
  BY ThreadsHaveTypes DEF ResetDocuments, At
<1>u. t = UI
  BY <1>r DEF JobOK
<1>1. /\ opened' = {} /\ pendingOpen' = {}
      /\ UNCHANGED <<docs, table, mirror>>
      /\ Moves(t, [threads[t] EXCEPT !.pc = "reloading"])
      /\ lapses' \subseteq AnyLapse
  BY <1>t DEF ResetDocuments, Happens, OtherTypes, AnyLapse
<1>2. /\ clients' = clients /\ born' = born /\ running' = running
      /\ starting' = starting /\ mirror' = mirror
  BY <1>1 DEF table
<1> DEFINE r == [threads[t] EXCEPT !.pc = "reloading"]
<1>3. /\ r \in ThreadType /\ r.pc = "reloading" /\ r.out = threads[t].out
      /\ JobOK(t, r)
  BY <1>r, <1>u DEF ThreadType, PcNames, JobOK
<1>4. Moves(t, r)
  BY <1>1
<1> HIDE DEF r
<1>5. /\ threads' \in [Thread -> ThreadType] /\ threads'[t] = r
      /\ \A u \in Thread \ {t} : threads'[u] = threads[u]
  BY <1>3, <1>4, OneMoves DEF ProcessInv, LspStrongType
<1>6. OtherTypes'
  BY <1>t, <1>1, <1>2 DEF OtherTypes, docs
<1>7. JobsFit'
  BY <1>3, <1>5 DEF ProcessInv, JobsFit
<1>8. Reloads(UI) /\ Reloads(UI)' /\ threads'[UI].out = threads[UI].out
  BY <1>r, <1>u, <1>3, <1>5 DEF Reloads, At
<1>9. NumbersGrow'
  <2>1. \A u \in Thread, s \in Server : threads'[u].out[s] <= born'[s]
    BY <1>2, <1>3, <1>5 DEF ProcessInv, NumbersGrow
  <2>2. QED
    BY <1>2, <1>8, <2>1 DEF ProcessInv, NumbersGrow, Live
<1>10. LockIsHeld'
  BY <1>2, <1>3, <1>5 DEF ProcessInv, LockIsHeld, At, Wanted
<1>11. OnlyTheLiveKnow'
  BY <1>2 DEF ProcessInv, OnlyTheLiveKnow, Live
<1>12. NoOrphans'
  BY <1>2, <1>8 DEF ProcessInv, NoOrphans
<1>13. QED
  BY <1>5, <1>6, <1>7, <1>9, <1>10, <1>11, <1>12, FromParts

LEMMA CloseOldOK ==
  ASSUME LspSyncAssumption, ProcessInv, NEW t \in Thread, CloseOldClients(t)
  PROVE  ProcessInv'
<1>t. OtherTypes
  BY DEF ProcessInv, LspStrongType, OtherTypes
<1>u. t = UI /\ Reloads(UI) /\ UI \in Thread
  BY ThreadsHaveTypes DEF CloseOldClients, JobOK, Reloads, At, Thread
<1>1. /\ running' = {p \in running : threads[UI].out[p[1]] # p[2]}
      /\ UNCHANGED <<docs, flags, clients, born, starting, mirror, lapses>>
  BY <1>u DEF CloseOldClients
<1>s. PICK S \in SUBSET listed :
        \E q \in Orders(S) : Moves(UI, [Idle EXCEPT !.queue = q])
  BY <1>u DEF CloseOldClients
<1>2. PICK q \in Orders(S) : Moves(UI, [Idle EXCEPT !.queue = q])
  BY <1>s
<1>3. q \in Seq(Doc)
  <2>1. S \in SUBSET Doc /\ IsFiniteSet(Doc)
    BY <1>t DEF OtherTypes, LspSyncAssumption
  <2>2. IsFiniteSet(S)
    BY <2>1, FS_Subset
  <2>3. q \in Seq(S)
    BY <2>2, OrdersAreSequences
  <2>4. QED
    BY <2>1, <2>3
<1> DEFINE r == [Idle EXCEPT !.queue = q]
<1>4. r \in ThreadType /\ JobOK(UI, r) /\ r.pc = "idle" /\ r.out = NoClients
  BY <1>3, IdleFields DEF ThreadType, JobOK
<1>5. Moves(UI, r)
  BY <1>2
<1> HIDE DEF r
<1>6. /\ threads' \in [Thread -> ThreadType] /\ threads'[UI] = r
      /\ \A u \in Thread \ {UI} : threads'[u] = threads[u]
  BY <1>u, <1>4, <1>5, OneMoves DEF ProcessInv, LspStrongType
<1>7. \A s \in Server : Live(s)' <=> Live(s)
  <2>1. \A s \in Server : Live(s) => threads[UI].out[s] # clients[s]
    BY <1>t, <1>u, ThreadsHaveTypes
       DEF ProcessInv, NumbersGrow, OtherTypes, ThreadType
  <2>2. QED
    BY <1>1, <2>1 DEF Live
<1>8. OtherTypes'
  BY <1>t, <1>1 DEF OtherTypes, docs, flags
<1>9. JobsFit'
  BY <1>4, <1>6 DEF ProcessInv, JobsFit
<1>10. ~Reloads(UI)'
  BY <1>4, <1>6 DEF Reloads, At
<1>11. NumbersGrow'
  <2>1. \A p \in running' : 1 <= p[2] /\ p[2] <= born'[p[1]]
    BY <1>1, ProcessesHaveNumbers
  <2>2. \A u \in Thread, s \in Server : threads'[u].out[s] <= born'[s]
    BY <1>1, <1>u, <1>4, <1>6, ThreadsHaveTypes
  <2>3. \A s \in Server : clients'[s] <= born'[s]
    BY <1>1, ProcessesHaveNumbers
  <2>4. QED
    BY <1>10, <2>1, <2>2, <2>3 DEF NumbersGrow
<1>12. LockIsHeld'
  BY <1>1, <1>4, <1>6 DEF ProcessInv, LockIsHeld, At, Wanted
<1>13. OnlyTheLiveKnow'
  BY <1>1, <1>7 DEF ProcessInv, OnlyTheLiveKnow
<1>14. NoOrphans'
  BY <1>1 DEF ProcessInv, NoOrphans
<1>15. QED
  BY <1>6, <1>8, <1>9, <1>11, <1>12, <1>13, <1>14, FromParts

LEMMA StartOK ==
  ASSUME LspSyncAssumption, ProcessInv, NEW t \in Thread,
         StartClient(t) \/ StartFailed(t)
  PROVE  ProcessInv'
<1>t. OtherTypes
  BY DEF ProcessInv, LspStrongType, OtherTypes
<1>r. /\ threads[t] \in ThreadType /\ JobOK(t, threads[t])
      /\ \A s \in Server : threads[t].out[s] <= born[s]
      /\ \A s \in Server : NoClients[s] <= born[s]
  BY ThreadsHaveTypes
<1>n. "none" \notin Thread /\ UI \in Thread
  BY DEF LspSyncAssumption, Thread
<1>p. /\ ~Reloads(t) /\ threads[t].todo # << >>
      /\ clients' = clients /\ born' = born /\ running' = running
      /\ mirror' = mirror /\ UNCHANGED <<docs, flags>>
  BY <1>r DEF StartClient, StartFailed, Reloads, At, JobOK
<1>1. ASSUME NEW r \in ThreadType, Moves(t, r), JobOK(t, r),
             r.pc \notin {"resetting", "reloading"},
             \A s \in Server : r.out[s] <= born[s],
             starting' \in Thread \cup {"none"}, lapses' \subseteq AnyLapse,
             LockIsHeld'
      PROVE  ProcessInv'
  <2>1. /\ threads' \in [Thread -> ThreadType] /\ threads'[t] = r
        /\ \A u \in Thread \ {t} : threads'[u] = threads[u]
    BY <1>1, OneMoves DEF ProcessInv, LspStrongType
  <2>2. OtherTypes'
    BY <1>t, <1>p, <1>1 DEF OtherTypes, docs, flags
  <2>3. JobsFit'
    BY <1>1, <2>1 DEF ProcessInv, JobsFit
  <2>4. Reloads(UI)' => threads'[UI] = threads[UI]
    BY <1>n, <1>1, <2>1 DEF Reloads, At
  <2>5. Reloads(UI) => threads'[UI] = threads[UI]
    BY <1>n, <1>p, <2>1 DEF At
  <2>6. NumbersGrow'
    <3>1. \A u \in Thread, s \in Server : threads'[u].out[s] <= born'[s]
      BY <1>p, <1>1, <2>1, ThreadsHaveTypes
    <3>2. QED
      BY <1>p, <2>4, <3>1 DEF ProcessInv, NumbersGrow, Reloads, At, Live
  <2>7. OnlyTheLiveKnow'
    BY <1>p DEF ProcessInv, OnlyTheLiveKnow, Live
  <2>8. NoOrphans'
    BY <1>p, <2>5 DEF ProcessInv, NoOrphans, Reloads, At
  <2>9. QED
    BY <1>1, <2>1, <2>2, <2>3, <2>6, <2>7, <2>8, FromParts
<1>2. CASE StartClient(t)
  <2> DEFINE r == [threads[t] EXCEPT !.pc = "starting"]
  <2>1. Moves(t, r) /\ starting' = t /\ starting = "none"
        /\ clients[Wanted(t)] = 0 /\ lapses' = lapses /\ At(t, "lookup")
    BY <1>2 DEF StartClient
  <2>2. r \in ThreadType /\ JobOK(t, r) /\ r.pc = "starting"
        /\ r.out = threads[t].out /\ r.todo = threads[t].todo
    BY <1>r, <1>p, <2>1 DEF ThreadType, JobOK, At, PcNames
  <2> HIDE DEF r
  <2>3. /\ threads'[t] = r
        /\ \A u \in Thread \ {t} : threads'[u] = threads[u]
    BY <2>1, <2>2, OneMoves DEF ProcessInv, LspStrongType
  <2>4. LockIsHeld'
    BY <1>n, <1>p, <2>1, <2>2, <2>3 DEF ProcessInv, LockIsHeld, At, Wanted
  <2>5. QED
    BY <1>t, <1>r, <1>1, <2>1, <2>2, <2>4 DEF OtherTypes
<1>3. CASE StartFailed(t)
  <2>1. /\ At(t, "starting") /\ starting' = "none"
        /\ Moves(t, IF threads[t].must # {} THEN Over(t) ELSE Found(t, 0))
    BY <1>3 DEF StartFailed
  <2>2. lapses' \subseteq AnyLapse
    BY <1>3, <1>t DEF StartFailed, Happens, OtherTypes, AnyLapse
  <2>3. ASSUME NEW r \in ThreadType, Moves(t, r), r.pc # "starting"
        PROVE  LockIsHeld'
    <3>1. /\ threads'[t] = r
          /\ \A u \in Thread \ {t} : threads'[u] = threads[u]
      BY <2>3, OneMoves DEF ProcessInv, LspStrongType
    <3>2. \A u \in Thread : At(u, "starting") => u = t
      BY <2>1 DEF ProcessInv, LockIsHeld
    <3>3. QED
      BY <2>3, <3>1, <3>2 DEF LockIsHeld, At
  <2>4. CASE threads[t].must # {}
    <3>1. Moves(t, Over(t))
      BY <2>1, <2>4
    <3>2. JobOK(t, Over(t))
      BY <1>r, OverFields DEF JobOK
    <3>3. QED
      BY <1>r, <1>1, <2>1, <2>2, <2>3, <3>1, <3>2, OverFields
  <2>5. CASE threads[t].must = {}
    <3>1. Moves(t, Found(t, 0))
      BY <2>1, <2>5
    <3> DEFINE r == Found(t, 0)
    <3>2. /\ r \in ThreadType /\ r.pc = "lookup" /\ Wanted(t) \in Server
          /\ r.out = [threads[t].out EXCEPT ![Wanted(t)] = 0]
          /\ r.job = threads[t].job /\ r.doc = threads[t].doc
          /\ r.must = threads[t].must
      BY <1>r, <1>p, FoundFields
    <3>o. threads[t].out \in [Server -> Nat]
      BY <1>r DEF ThreadType
    <3>3. ASSUME NEW s \in Server
          PROVE  r.out[s] <= born[s]
      <4> HIDE DEF r
      <4>1. r.out[s] \in {0, threads[t].out[s]}
        BY <3>2, <3>o
      <4>2. born[s] \in Nat /\ threads[t].out[s] <= born[s]
        BY <1>r, <1>t DEF OtherTypes
      <4>3. QED
        BY <4>1, <4>2
    <3>4. threads[t].job = "workspace" => r.out = NoClients
      BY <1>r, <2>1, <3>2, <3>o, NoClientsType DEF JobOK, At, NoClients
    <3>5. Moves(t, r)
      BY <3>1
    <3> HIDE DEF r
    <3>6. JobOK(t, r)
      BY <1>r, <2>1, <2>5, <3>2, <3>4 DEF JobOK, At
    <3>7. LockIsHeld'
      BY <2>3, <3>2, <3>5
    <3>8. /\ r.pc \notin {"resetting", "reloading"}
          /\ starting' \in Thread \cup {"none"}
      BY <2>1, <3>2
    <3>9. QED
      BY <1>1, <2>2, <3>2, <3>3, <3>5, <3>6, <3>7, <3>8
  <2>6. QED
    BY <2>4, <2>5
<1>4. QED
  BY <1>2, <1>3

LEMMA StartedOK ==
  ASSUME LspSyncAssumption, ProcessInv, NEW t \in Thread, ClientStarted(t)
  PROVE  ProcessInv'
<1> DEFINE s == Wanted(t)
           k == born[s] + 1
<1>t. OtherTypes
  BY DEF ProcessInv, LspStrongType, OtherTypes
<1>r. /\ threads[t] \in ThreadType /\ JobOK(t, threads[t])
      /\ \A u \in Server : threads[t].out[u] <= born[u]
  BY ThreadsHaveTypes
<1>1. /\ At(t, "starting")
      /\ born' = [born EXCEPT ![s] = k] /\ clients' = [clients EXCEPT ![s] = k]
      /\ running' = running \cup {<<s, k>>}
      /\ mirror' = [mirror EXCEPT ![s] = NoTexts]
      /\ starting' = "none" /\ UNCHANGED <<docs, flags>>
      /\ Moves(t, [Found(t, k) EXCEPT
                     !.pc = IF JobOf(t) = "workspace" THEN "opening" ELSE @])
  BY DEF ClientStarted
<1>2. threads[t].todo # << >> /\ threads[t].pc = "starting"
  BY <1>r, <1>1 DEF JobOK, At
<1>3. s \in Server /\ born[s] \in Nat /\ k \in Nat
  <2>1. s \in Server
    BY <1>r, <1>2 DEF ThreadType, Wanted
  <2>2. QED
    BY <2>1, ProcessesHaveNumbers
<1>4. lapses' \subseteq AnyLapse
  BY <1>t DEF ClientStarted, Happens, OtherTypes, AnyLapse
<1>5. starting = t /\ clients[s] = 0
  BY <1>1 DEF ProcessInv, LockIsHeld
<1>6. \A u \in Thread : At(u, "starting") => u = t
  BY <1>1 DEF ProcessInv, LockIsHeld
<1> HIDE DEF s, k
<1> DEFINE f == Found(t, k)
           r == [f EXCEPT !.pc = IF JobOf(t) = "workspace" THEN "opening"
                                 ELSE @]
<1>7. /\ f \in ThreadType /\ f.pc = "lookup"
      /\ f.out = [threads[t].out EXCEPT ![s] = k]
      /\ f.job = threads[t].job /\ f.doc = threads[t].doc
      /\ f.must = threads[t].must
  BY <1>r, <1>2, <1>3, FoundFields DEF s
<1>8. Moves(t, r)
  BY <1>1
<1> HIDE DEF f
<1>9. /\ r \in ThreadType /\ r.pc \in {"lookup", "opening"}
      /\ r.pc = "opening" <=> threads[t].job = "workspace"
      /\ r.out = [threads[t].out EXCEPT ![s] = k]
      /\ r.job = threads[t].job /\ r.doc = threads[t].doc
      /\ r.must = threads[t].must
  BY <1>7 DEF ThreadType, PcNames, JobOf
<1> HIDE DEF r
<1>10. JobOK(t, r)
  <2>1. r.job = "workspace" => r.must = {}
    BY <1>r, <1>9 DEF JobOK
  <2>2. QED
    BY <1>r, <1>2, <1>9, <2>1 DEF JobOK
<1>11. /\ threads' \in [Thread -> ThreadType] /\ threads'[t] = r
       /\ \A u \in Thread \ {t} : threads'[u] = threads[u]
  BY <1>8, <1>9, OneMoves DEF ProcessInv, LspStrongType
<1>u. UI \in Thread
  BY DEF Thread
<1>12. Reloads(UI) <=> Reloads(UI)'
  BY <1>u, <1>2, <1>9, <1>11 DEF Reloads, At
<1>13. Reloads(UI) => threads'[UI] = threads[UI]
  BY <1>u, <1>2, <1>11 DEF Reloads, At
<1>14. OtherTypes'
  <2>1. NoTexts \in [Doc -> Int]
    BY DEF NoTexts, Closed
  <2>2. QED
    BY <1>1, <1>3, <1>4, <1>t, <2>1 DEF OtherTypes, docs, flags
<1>15. JobsFit'
  BY <1>10, <1>11 DEF ProcessInv, JobsFit
<1>16. /\ born'[s] = k /\ clients'[s] = k
       /\ \A u \in Server \ {s} : born'[u] = born[u] /\ clients'[u] = clients[u]
       /\ \A u \in Server : born[u] <= born'[u]
  <2>1. /\ born'[s] = k /\ clients'[s] = k
        /\ \A u \in Server \ {s} :
             born'[u] = born[u] /\ clients'[u] = clients[u]
    BY <1>1, <1>3, <1>t DEF OtherTypes
  <2>2. born[s] <= k
    BY <1>3 DEF k
  <2>3. \A u \in Server : born[u] <= born[u]
    BY ProcessesHaveNumbers
  <2>4. QED
    BY <2>1, <2>2, <2>3
<1>17. NumbersGrow'
  <2>1. \A u \in Server : clients'[u] <= born'[u]
    BY <1>3, <1>16, ProcessesHaveNumbers
  <2>2. ASSUME NEW p \in running'
        PROVE  1 <= p[2] /\ p[2] <= born'[p[1]]
    <3>1. CASE p = <<s, k>>
      BY <1>3, <1>16, <3>1 DEF k
    <3>2. CASE p \in running
      <4>1. /\ p[1] \in Server /\ p[2] \in Nat
            /\ 1 <= p[2] /\ p[2] <= born[p[1]]
        BY <3>2, ProcessesHaveNumbers
      <4>2. born[p[1]] \in Nat /\ born'[p[1]] \in Nat
        BY <1>t, <1>14, <4>1 DEF OtherTypes
      <4>3. QED
        BY <1>16, <4>1, <4>2
    <3>3. QED
      BY <1>1, <3>1, <3>2
  <2>3. ASSUME NEW u \in Thread, NEW v \in Server
        PROVE  threads'[u].out[v] <= born'[v]
    <3>1. threads[u].out[v] \in Nat /\ threads[u].out[v] <= born[v]
      BY ThreadsHaveTypes
    <3>2. born[v] \in Nat /\ born'[v] \in Nat /\ born[v] <= born'[v]
      BY <1>t, <1>14, <1>16 DEF OtherTypes
    <3>3. threads'[u].out[v] \in {threads[u].out[v], born'[v]}
      <4>1. CASE u # t
        BY <1>11, <4>1
      <4>2. CASE u = t
        <5>1. threads[t].out \in [Server -> Nat]
          BY <1>r DEF ThreadType
        <5>2. threads'[u].out = [threads[t].out EXCEPT ![s] = k]
          BY <1>9, <1>11, <4>2
        <5>3. QED
          BY <1>16, <4>2, <5>1, <5>2
      <4>3. QED
        BY <4>1, <4>2
    <3>4. QED
      BY <3>1, <3>2, <3>3
  <2>4. ASSUME Reloads(UI)', NEW v \in Server, Live(v)'
        PROVE  threads'[UI].out[v] < clients'[v]
    <3>1. Reloads(UI) /\ threads'[UI] = threads[UI]
      BY <1>12, <1>13, <2>4
    <3>2. threads[UI].out[v] \in Nat /\ threads[UI].out[v] <= born[v]
      BY <1>u, ThreadsHaveTypes
    <3>3. CASE v = s
      BY <1>3, <1>16, <3>1, <3>2, <3>3 DEF k
    <3>4. CASE v # s
      <4>1. Live(v)
        BY <1>1, <1>16, <2>4, <3>4 DEF Live
      <4>2. QED
        BY <1>16, <3>1, <3>4, <4>1 DEF ProcessInv, NumbersGrow
    <3>5. QED
      BY <3>3, <3>4
  <2>5. QED
    BY <2>1, <2>2, <2>3, <2>4 DEF NumbersGrow
<1>18. LockIsHeld'
  BY <1>6, <1>9, <1>11 DEF LockIsHeld, At
<1>19. OnlyTheLiveKnow'
  <2>1. ASSUME NEW v \in Server, ~Live(v)'
        PROVE  mirror'[v] = NoTexts
    <3>1. CASE v = s
      BY <1>1, <1>3, <1>t, <3>1 DEF OtherTypes
    <3>2. CASE v # s
      <4>1. ~Live(v)
        BY <1>1, <1>16, <2>1, <3>2 DEF Live
      <4>2. QED
        BY <1>1, <1>t, <3>2, <4>1 DEF OtherTypes, ProcessInv, OnlyTheLiveKnow
    <3>3. QED
      BY <3>1, <3>2
  <2>2. QED
    BY <2>1 DEF OnlyTheLiveKnow
<1>20. NoOrphans'
  <2>1. ASSUME NEW p \in running'
        PROVE  \/ clients'[p[1]] = p[2]
               \/ Reloads(UI)' /\ threads'[UI].out[p[1]] = p[2]
    <3>1. CASE p = <<s, k>>
      BY <1>16, <3>1
    <3>2. CASE p \in running
      <4>1. /\ p[1] \in Server /\ 1 <= p[2] /\ p[2] \in Nat
        BY <3>2, ProcessesHaveNumbers
      <4>2. CASE clients[p[1]] = p[2]
        <5>1. p[1] # s
          BY <1>5, <4>1, <4>2
        <5>2. QED
          BY <1>16, <4>1, <4>2, <5>1
      <4>3. CASE Reloads(UI) /\ threads[UI].out[p[1]] = p[2]
        BY <1>12, <1>13, <4>3
      <4>4. QED
        BY <3>2, <4>2, <4>3 DEF ProcessInv, NoOrphans
    <3>3. QED
      BY <1>1, <3>1, <3>2
  <2>2. QED
    BY <2>1 DEF NoOrphans
<1>21. QED
  BY <1>11, <1>14, <1>15, <1>17, <1>18, <1>19, <1>20, FromParts

\* A request drops what has ended from the table, and nothing else.
LEMMA RequestDrops ==
  ASSUME ProcessInv, NEW t \in Thread, Request(t)
  PROVE  /\ clients' \in [Server -> Nat]
         /\ \A s \in Server :
              clients'[s] = clients[s] \/ (clients'[s] = 0 /\ ~Live(s))
         /\ \A s \in Server : Live(s)' <=> Live(s) /\ clients'[s] = clients[s]
<1> DEFINE gone == {s \in Server : clients[s] = threads[t].out[s] /\ ~Live(s)}
<1>1. PICK dropped \in {{}, gone} :
        clients' = [s \in Server |-> IF s \in dropped THEN 0 ELSE clients[s]]
  BY DEF Request
<1>2. running' = running
  BY DEF Request
<1>3. \A s \in Server :
        clients'[s] = clients[s] \/ (clients'[s] = 0 /\ ~Live(s))
  BY <1>1
<1>4. ASSUME NEW s \in Server, Live(s)'
      PROVE  Live(s) /\ clients'[s] = clients[s]
  <2>1. <<s, clients'[s]>> \in running
    BY <1>2, <1>4 DEF Live
  <2>2. clients'[s] # 0
    BY <2>1, ProcessesHaveNumbers
  <2>3. QED
    BY <1>3, <2>1, <2>2 DEF Live
<1>5. clients' \in [Server -> Nat]
  BY <1>1, ProcessesHaveNumbers
<1>6. QED
  BY <1>2, <1>3, <1>4, <1>5 DEF Live

LEMMA RequestOK ==
  ASSUME LspSyncAssumption, ProcessInv, NEW t \in Thread, Request(t)
  PROVE  ProcessInv'
<1>t. OtherTypes
  BY DEF ProcessInv, LspStrongType, OtherTypes
<1>r. threads[t] \in ThreadType
  BY ThreadsHaveTypes
<1>2. /\ Moves(t, Over(t)) /\ At(t, "request")
      /\ UNCHANGED <<docs, flags, lapses>> /\ born' = born
      /\ running' = running /\ starting' = starting /\ mirror' = mirror
  BY DEF Request
<1>3. \A s \in Server :
        clients'[s] = clients[s] \/ (clients'[s] = 0 /\ ~Live(s))
  BY RequestDrops
<1>4. /\ threads' \in [Thread -> ThreadType] /\ threads'[t] = Over(t)
      /\ \A u \in Thread \ {t} : threads'[u] = threads[u]
  BY <1>r, <1>2, OverFields, OneMoves DEF ProcessInv, LspStrongType
<1>e. JobOK(t, Over(t)) /\ Over(t).pc = "idle" /\ Over(t).out = NoClients
  BY <1>r, OverFields DEF JobOK
<1>5. \A s \in Server : Live(s)' <=> Live(s) /\ clients'[s] = clients[s]
  BY RequestDrops
<1>6. OtherTypes'
  BY <1>2, <1>t, RequestDrops DEF OtherTypes, docs, flags
<1>7. JobsFit'
  BY <1>4, <1>e DEF ProcessInv, JobsFit
<1>u. UI \in Thread
  BY DEF Thread
<1>8. /\ Reloads(UI)' => Reloads(UI)
      /\ Reloads(UI) =>
           Reloads(UI)' /\ threads'[UI] = threads[UI]
  BY <1>u, <1>2, <1>4, <1>e DEF Reloads, At
<1>9. NumbersGrow'
  <2>1. ASSUME NEW s \in Server
        PROVE  clients'[s] <= born'[s]
    BY <1>2, <1>3, ProcessesHaveNumbers
  <2>2. \A p \in running' : 1 <= p[2] /\ p[2] <= born'[p[1]]
    BY <1>2, ProcessesHaveNumbers
  <2>3. \A u \in Thread, s \in Server : threads'[u].out[s] <= born'[s]
    BY <1>2, <1>4, <1>e, ThreadsHaveTypes
  <2>4. Reloads(UI)' =>
          \A s \in Server : Live(s)' => threads'[UI].out[s] < clients'[s]
    BY <1>5, <1>8 DEF ProcessInv, NumbersGrow
  <2>5. QED
    BY <2>1, <2>2, <2>3, <2>4 DEF NumbersGrow
<1>10. LockIsHeld'
  <2>1. SUFFICES ASSUME NEW u \in Thread, At(u, "starting")'
                 PROVE  (starting = u /\ clients[Wanted(u)] = 0)'
    BY DEF LockIsHeld
  <2>2. threads'[u] = threads[u] /\ At(u, "starting")
    BY <1>4, <1>e, <2>1 DEF At
  <2>3. starting = u /\ clients[Wanted(u)] = 0 /\ Wanted(u) \in Server
    BY <2>2, ThreadsHaveTypes
       DEF ProcessInv, LockIsHeld, At, JobOK, Wanted, ThreadType
  <2>4. QED
    BY <1>2, <1>3, <2>2, <2>3 DEF Wanted
<1>11. OnlyTheLiveKnow'
  <2>1. ASSUME NEW s \in Server, ~Live(s)'
        PROVE  mirror'[s] = NoTexts
    <3>1. ~Live(s)
      BY <1>2, <1>3, <2>1 DEF Live
    <3>2. QED
      BY <1>2, <3>1 DEF ProcessInv, OnlyTheLiveKnow
  <2>2. QED
    BY <2>1 DEF OnlyTheLiveKnow
<1>12. NoOrphans'
  <2>1. ASSUME NEW p \in running, clients[p[1]] = p[2]
        PROVE  clients'[p[1]] = p[2]
    <3>1. p[1] \in Server /\ Live(p[1])
      BY <2>1, ProcessesHaveNumbers DEF Live
    <3>2. QED
      BY <1>3, <2>1, <3>1
  <2>2. QED
    BY <1>2, <1>8, <2>1 DEF ProcessInv, NoOrphans
<1>13. QED
  BY <1>4, <1>6, <1>7, <1>9, <1>10, <1>11, <1>12, FromParts

LEMMA CrashOK ==
  ASSUME LspSyncAssumption, ProcessInv, Crash
  PROVE  ProcessInv'
<1>t. OtherTypes
  BY DEF ProcessInv, LspStrongType, OtherTypes
<1>1. PICK s \in Server : /\ running' = running \ {<<s, clients[s]>>}
                          /\ mirror' = [mirror EXCEPT ![s] = NoTexts]
  BY DEF Crash
<1>2. /\ UNCHANGED <<docs, flags, lapses>> /\ clients' = clients
      /\ born' = born /\ starting' = starting /\ threads' = threads
  BY DEF Crash
<1>3. \A u \in Server : Live(u)' <=> Live(u) /\ u # s
  BY <1>1, <1>2 DEF Live
<1>4. OtherTypes'
  <2>1. NoTexts \in [Doc -> Int]
    BY DEF NoTexts, Closed
  <2>2. QED
    BY <1>1, <1>2, <1>t, <2>1 DEF OtherTypes, docs, flags
<1>5. threads' \in [Thread -> ThreadType] /\ JobsFit'
  BY <1>2 DEF ProcessInv, LspStrongType, JobsFit
<1>6. NumbersGrow'
  BY <1>1, <1>2, <1>3 DEF ProcessInv, NumbersGrow, Reloads, At
<1>7. LockIsHeld'
  BY <1>2 DEF ProcessInv, LockIsHeld, At, Wanted
<1>8. OnlyTheLiveKnow'
  BY <1>1, <1>3, <1>t DEF ProcessInv, OnlyTheLiveKnow, OtherTypes
<1>9. NoOrphans'
  BY <1>1, <1>2 DEF ProcessInv, NoOrphans, Reloads, At
<1>10. QED
  BY <1>4, <1>5, <1>6, <1>7, <1>8, <1>9, FromParts

LEMMA InitProcesses ==
  ASSUME LspSyncAssumption, Init
  PROVE  ProcessInv
<1>1. /\ Visible \in Seq(Doc) /\ Hidden \subseteq Doc
  BY DEF LspSyncAssumption
<1>2. {Visible[i] : i \in DOMAIN Visible} \subseteq Doc
  BY <1>1
<1>3. ASSUME NEW t \in Thread
      PROVE  /\ threads[t] \in ThreadType /\ JobOK(t, threads[t])
             /\ threads[t].out = NoClients /\ threads[t].pc = "idle"
  <2>1. threads[t] \in {Idle, [Idle EXCEPT !.queue = Visible]}
    BY DEF Init
  <2>2. QED
    BY <1>1, <2>1, IdleFields DEF ThreadType, JobOK
<1>4. /\ clients = NoClients /\ born = NoClients /\ running = {}
      /\ starting = "none" /\ mirror = [s \in Server |-> NoTexts]
  BY DEF Init
<1>5. LspStrongType
  <2>1. NoTexts \in [Doc -> Int]
    BY DEF NoTexts, Closed
  <2>2. threads \in [Thread -> ThreadType]
    <3>1. threads = [t \in Thread |-> threads[t]]
      BY DEF Init
    <3>2. QED
      BY <1>3, <3>1
  <2>3. /\ listed \subseteq Doc /\ fresh \subseteq Doc
        /\ pendingOpen \subseteq Doc /\ opened \subseteq Doc
        /\ version \in [Doc -> Nat] /\ lapses \subseteq AnyLapse
    BY <1>1, <1>2 DEF Init
  <2>4. QED
    BY <1>4, <2>1, <2>2, <2>3, NoClientsType DEF LspStrongType
<1>u. UI \in Thread
  BY DEF Thread
<1>6. \A s \in Server : ~Live(s)
  BY <1>4 DEF Live
<1>7. NumbersGrow
  BY <1>3, <1>4, <1>6, <1>u, NoClientsType DEF NumbersGrow, At
<1>8. JobsFit /\ LockIsHeld /\ OnlyTheLiveKnow /\ NoOrphans
  BY <1>3, <1>4 DEF JobsFit, LockIsHeld, OnlyTheLiveKnow, NoOrphans, At
<1>9. QED
  BY <1>5, <1>7, <1>8 DEF ProcessInv

LEMMA NextProcesses ==
  ASSUME LspSyncAssumption, ProcessInv, [Next]_vars
  PROVE  ProcessInv'
<1>u. UI \in Thread /\ Startup \in Thread /\ Worker \subseteq Thread
  BY DEF Thread
<1>1. CASE OpenFile \/ Edit \/ Save \/ CloseDocument
  BY <1>1, UserActsOK
<1>2. CASE StopLanguageServers
  BY <1>2, StopOK
<1>3. CASE RestartLanguageServers
  BY <1>3, RestartOK
<1>4. CASE ReloadConfig
  BY <1>4, ReloadOK
<1>5. CASE \E t \in {UI, Startup} : NextDocument(t)
  BY <1>5, <1>u, ThreadBeginsOK
<1>6. CASE WorkspaceServers
  BY <1>6, <1>u, ThreadBeginsOK
<1>7. CASE \E w \in Worker : Ask(w)
  BY <1>7, <1>u, ThreadBeginsOK
<1>8. CASE Crash
  BY <1>8, CrashOK
<1>9. ASSUME NEW t \in Thread, Step(t) \/ TellChange(t)
      PROVE  ProcessInv'
  <2>1. CASE \/ FindClient(t) \/ Restarted(t) \/ NobodyToTell(t)
             \/ OpenedAlready(t) \/ ClaimOpen(t) \/ Snapshot(t)
    BY <2>1, LooksFurther
  <2>2. CASE \/ SendOpen(t) \/ TellChange(t) \/ TellClosed(t)
             \/ TellReopened(t) \/ Forget(t)
    BY <2>2, MessagesOK
  <2>3. CASE StartClient(t) \/ StartFailed(t)
    BY <2>3, StartOK
  <2>4. CASE ClientStarted(t)
    BY <2>4, StartedOK
  <2>5. CASE Request(t)
    BY <2>5, RequestOK
  <2>6. CASE ResetDocuments(t)
    BY <2>6, ResetOK
  <2>7. CASE CloseOldClients(t)
    BY <2>7, CloseOldOK
  <2>8. QED
    BY <1>9, <2>1, <2>2, <2>3, <2>4, <2>5, <2>6, <2>7 DEF Step
<1>10. CASE UNCHANGED vars
  <2>1. /\ listed' = listed /\ fresh' = fresh /\ version' = version
        /\ opened' = opened /\ pendingOpen' = pendingOpen
        /\ clients' = clients /\ born' = born /\ running' = running
        /\ starting' = starting /\ threads' = threads /\ mirror' = mirror
        /\ lapses' = lapses
    BY <1>10 DEF vars, docs, flags, table
  <2>2. LspStrongType' /\ JobsFit' /\ NumbersGrow'
    BY <2>1 DEF ProcessInv, LspStrongType, JobsFit, NumbersGrow, Reloads, At,
                Live
  <2>3. LockIsHeld' /\ OnlyTheLiveKnow' /\ NoOrphans'
    BY <2>1 DEF ProcessInv, LockIsHeld, OnlyTheLiveKnow, NoOrphans, Reloads,
                At, Live, Wanted
  <2>4. QED
    BY <2>2, <2>3 DEF ProcessInv
<1>11. QED
  BY <1>1, <1>2, <1>3, <1>4, <1>5, <1>6, <1>7, <1>8, <1>9, <1>10
     DEF Next, ServerNext

LEMMA ProcessesAreInvariant ==
  ASSUME LspSyncAssumption
  PROVE  Spec => []ProcessInv
<1>1. Init => ProcessInv
  BY InitProcesses
<1>2. ProcessInv /\ [Next]_vars => ProcessInv'
  BY NextProcesses
<1>3. QED
  BY <1>1, <1>2, PTL DEF Spec

(***************************************************************************)
(* The documents.                                                          *)
(***************************************************************************)

TellingJobs == {"change", "close", "restart"}

\* The thread is about to send a didOpen of a document it has claimed.
IsClaim(r) == r.pc \in {"snapshot", "opening"} /\ r.job # "workspace"

LEMMA ClaimsAndTelling ==
  /\ \A t \in Thread, d \in Doc :
       Claims(t, d) <=> threads[t].doc = d /\ IsClaim(threads[t])
  /\ \A d \in Doc :
       Telling(d) <=> threads[UI].doc = d /\ threads[UI].job \in TellingJobs
BY DEF Claims, IsClaim, Telling, TellingJobs, DocOf, JobOf

\* Servers may end, and none comes.
ServersLast ==
  \A s \in Server : Live(s)' =>
    Live(s) /\ clients'[s] = clients[s] /\ mirror'[s] = mirror[s]

LEMMA WhatTheyKnowLasts ==
  ASSUME ProcessInv', NotOpenedIsClosed, ServersLast, opened \subseteq opened'
  PROVE  NotOpenedIsClosed'
<1>1. ASSUME NEW d \in Doc \ opened', NEW s \in Server
      PROVE  mirror'[s][d] = Closed
  <2>1. CASE Live(s)'
    BY <1>1, <2>1 DEF ServersLast, NotOpenedIsClosed
  <2>2. CASE ~Live(s)'
    BY <1>1, <2>2 DEF ProcessInv, OnlyTheLiveKnow, NoTexts
  <2>3. QED
    BY <2>1, <2>2
<1>2. QED
  BY <1>1 DEF NotOpenedIsClosed

\* A thread that claims nothing, and is not the UI telling something, moves, or
\* none does.
LEMMA AsideMove ==
  ASSUME LspSyncAssumption, ProcessInv, ProcessInv', DocInv,
         NEW t \in Thread, NEW r \in ThreadType,
         Moves(t, r),
         r = threads[t] \/ (~IsClaim(r) /\ ~IsClaim(threads[t])),
         opened' = opened, version' = version, listed \subseteq listed',
         pendingOpen' \subseteq pendingOpen, ServersLast,
         \/ r = threads[t]
         \/ t # UI /\ (r.job = "open" => r.there)
         \/ /\ t = UI
            /\ threads[t].job \notin TellingJobs
            /\ r.job \notin TellingJobs
            /\ r.job # "none" => r.doc \in listed'
            /\ \A i \in DOMAIN r.queue : r.queue[i] \in listed'
  PROVE  DocInv'
<1>u. UI \in Thread
  BY DEF Thread
<1>1. /\ threads'[t] = r
      /\ \A u \in Thread \ {t} : threads'[u] = threads[u]
  BY OneMoves DEF ProcessInv, LspStrongType
<1>2. \A u \in Thread, d \in Doc :
        /\ Claims(u, d)' <=> Claims(u, d)
        /\ Claims(u, d) => threads'[u] = threads[u]
  BY <1>1 DEF Claims, IsClaim, DocOf, JobOf
<1>3. \A d \in Doc :
        /\ Telling(d)' <=> Telling(d)
        /\ Telling(d) => threads'[UI] = threads[UI]
  BY <1>1, <1>u DEF Telling, TellingJobs, DocOf, JobOf
<1>4. \A u \in Thread, s \in Server, d \in Doc :
        /\ Opener(u, s, d)' =>
             Opener(u, s, d) /\ Live(s)' /\ threads'[u] = threads[u]
        /\ Opener(u, s, d) /\ Live(s)' => Opener(u, s, d)'
  <2>1. SUFFICES ASSUME NEW u \in Thread, NEW s \in Server, NEW d \in Doc,
                        Claims(u, d), threads'[u] = threads[u]
                 PROVE  /\ (s \in Reached(u))' => s \in Reached(u) /\ Live(s)'
                        /\ s \in Reached(u) /\ Live(s)' => (s \in Reached(u))'
    BY <1>1, <1>2 DEF Opener
  <2>2. QED
    BY <2>1 DEF Reached, ServersLast
<1>5. DocInv
  OBVIOUS
<1>6. ListsFit'
  BY <1>1, <1>3, <1>5, <1>u DEF DocInv, ListsFit, JobOf, DocOf, TellingJobs
<1>7. OpenersAreAlone'
  <2>1. ASSUME NEW u \in Thread, NEW s \in Server, NEW d \in Doc,
               Opener(u, s, d)'
        PROVE  /\ d \in opened'
               /\ mirror'[s][d] = Closed
               /\ At(u, "opening")' => threads'[u].snap = version'[d]
               /\ \A v \in Thread : Opener(v, s, d)' => v = u
               /\ u = UI /\ JobOf(UI)' = "change" => s \in FullSync
    <3>1. Opener(u, s, d) /\ Live(s)' /\ threads'[u] = threads[u]
      BY <1>1, <1>4, <2>1
    <3>2. mirror'[s] = mirror[s]
      BY <3>1 DEF ServersLast
    <3>3. QED
      BY <1>4, <1>5, <3>1, <3>2 DEF DocInv, OpenersAreAlone, At, JobOf
  <2>2. QED
    BY <2>1 DEF OpenersAreAlone
<1>8. NobodyOvertakes'
  BY <1>2, <1>3, <1>5 DEF DocInv, NobodyOvertakes
<1>9. AllAreFound'
  <2>1. ASSUME NEW d \in opened', NEW s \in Server, Telling(d)',
               threads'[UI].must = {}, Live(s)'
        PROVE  \/ threads'[UI].out[s] = clients'[s]
               \/ \E i \in DOMAIN threads'[UI].todo : threads'[UI].todo[i] = s
    <3>1. d \in opened /\ d \in Doc
      BY <2>1 DEF ProcessInv, LspStrongType
    <3>2. Telling(d) /\ threads'[UI] = threads[UI]
      BY <1>3, <2>1, <3>1
    <3>3. Live(s) /\ clients'[s] = clients[s]
      BY <2>1 DEF ServersLast
    <3>4. QED
      BY <1>5, <2>1, <3>1, <3>2, <3>3 DEF DocInv, AllAreFound
  <2>2. QED
    BY <2>1 DEF AllAreFound
<1>10. TellingIsOpen'
  <2>1. \/ At(UI, "tell")'
        \/ JobOf(UI)' \in {"close", "change"}
        => threads'[UI] = threads[UI]
    <3>1. (At(UI, "tell") => JobOf(UI) \in TellingJobs)'
      BY <1>u, ThreadsHaveTypes
         DEF ProcessInv, JobsFit, JobOK, At, JobOf, TellingJobs
    <3>2. JobOf(UI)' \in TellingJobs => threads'[UI] = threads[UI]
      BY <1>1, <1>u DEF JobOf
    <3>3. QED
      BY <1>1, <1>u, <3>1, <3>2 DEF TellingJobs
  <2>2. threads'[UI].pc \in {"snapshot", "opening"} =>
          threads'[UI] = threads[UI]
    <3>1. threads'[UI].job # "workspace"
      BY <1>u, ThreadsHaveTypes
         DEF ProcessInv, JobsFit, JobOK, LspSyncAssumption
    <3>2. QED
      BY <1>1, <1>u, <3>1 DEF IsClaim
  <2>3. QED
    BY <1>5, <2>1, <2>2 DEF DocInv, TellingIsOpen, At, JobOf, DocOf
<1>11. NotOpenedIsClosed'
  BY <1>5, WhatTheyKnowLasts DEF DocInv
<1>12. OpenedIsKnown'
  <2>1. ASSUME NEW d \in opened', NEW s \in Server, Live(s)',
               \A u \in Thread : ~Opener(u, s, d)'
        PROVE  Has(s, d, mirror[s][d])'
    <3>1. d \in opened /\ d \in Doc
      BY <2>1 DEF ProcessInv, LspStrongType
    <3>2. Live(s) /\ mirror'[s] = mirror[s]
      BY <2>1 DEF ServersLast
    <3>3. Has(s, d, mirror[s][d])
      BY <1>4, <1>5, <2>1, <3>1, <3>2 DEF DocInv, OpenedIsKnown
    <3>4. QED
      BY <1>3, <3>1, <3>2, <3>3 DEF Has, At, JobOf
  <2>2. QED
    BY <2>1 DEF OpenedIsKnown
<1>13. QED
  BY <1>6, <1>7, <1>8, <1>9, <1>10, <1>11, <1>12 DEF DocInv

LEMMA TableLasts ==
  ASSUME UNCHANGED <<clients, running, mirror>>
  PROVE  ServersLast
BY DEF ServersLast, Live

LEMMA SameThread ==
  ASSUME ProcessInv, UNCHANGED threads
  PROVE  /\ UI \in Thread
         /\ threads[UI] \in ThreadType /\ Moves(UI, threads[UI])
<1>1. UI \in Thread /\ threads \in [Thread -> ThreadType]
  BY DEF Thread, ProcessInv, LspStrongType
<1>2. threads = [threads EXCEPT ![UI] = threads[UI]]
  BY <1>1
<1>3. QED
  BY <1>1, <1>2 DEF Moves

LEMMA ServersEndAside ==
  ASSUME LspSyncAssumption, ProcessInv, ProcessInv', DocInv,
         StopLanguageServers \/ Crash
  PROVE  DocInv'
<1>1. UNCHANGED <<docs, flags, threads>>
  BY DEF StopLanguageServers, Crash
<1>2. ServersLast
  <2>1. CASE StopLanguageServers
    <3>1. PICK S \in SUBSET Server : StopClients(S)
      BY <2>1 DEF StopLanguageServers
    <3>2. /\ \A s \in S : ~Live(s)'
          /\ \A s \in Server \ S : /\ Live(s)' <=> Live(s)
                                   /\ mirror'[s] = mirror[s]
                                   /\ clients'[s] = clients[s]
      BY <3>1, StopsClients
    <3>3. QED
      BY <3>2 DEF ServersLast
  <2>2. CASE Crash
    <3>1. PICK s \in Server : /\ running' = running \ {<<s, clients[s]>>}
                              /\ mirror' = [mirror EXCEPT ![s] = NoTexts]
      BY <2>2 DEF Crash
    <3>2. clients' = clients
      BY <2>2 DEF Crash
    <3>3. mirror \in [Server -> [Doc -> Int]]
      BY DEF ProcessInv, LspStrongType
    <3>4. QED
      BY <3>1, <3>2, <3>3 DEF ServersLast, Live
  <2>3. QED
    BY <2>1, <2>2
<1>3. UI \in Thread /\ threads[UI] \in ThreadType /\ Moves(UI, threads[UI])
  BY <1>1, SameThread
<1>4. QED
  BY <1>1, <1>2, <1>3, AsideMove DEF docs, flags

LEMMA UIHasNoClaim ==
  ASSUME ProcessInv, Ready
  PROVE  /\ UI \in Thread /\ threads[UI] \in ThreadType
         /\ threads[UI].pc = "idle" /\ threads[UI].job = "none"
         /\ threads[UI].must = {} /\ threads[UI].out = NoClients
         /\ threads[UI].queue = << >>
         /\ ~IsClaim(threads[UI]) /\ \A d \in Doc : ~Telling(d)
<1>1. UI \in Thread /\ threads[UI].pc = "idle" /\ threads[UI].queue = << >>
  BY DEF Ready, At, Thread
<1>2. threads[UI] \in ThreadType /\ JobOK(UI, threads[UI])
  BY <1>1, ThreadsHaveTypes
<1>3. QED
  BY <1>1, <1>2 DEF JobOK, IsClaim, Telling, JobOf

LEMMA UserOpensAside ==
  ASSUME LspSyncAssumption, ProcessInv, ProcessInv', DocInv, OpenFile \/ Save
  PROVE  DocInv'
<1>0. Ready /\ UNCHANGED <<clients, running, mirror, flags, version>>
  BY DEF OpenFile, Save, table, docs
<1>u. /\ UI \in Thread /\ threads[UI] \in ThreadType /\ ~IsClaim(threads[UI])
      /\ threads[UI].job = "none" /\ threads[UI].queue = << >>
  BY <1>0, UIHasNoClaim
<1>1. PICK d \in Doc : /\ Moves(UI, Job(UI, "open", d)) /\ d \in listed'
                       /\ listed \subseteq listed'
  BY DEF OpenFile, Save, docs, ProcessInv, LspStrongType
<1> DEFINE r == Job(UI, "open", d)
<1>2. /\ r \in ThreadType /\ r.pc = "lookup" /\ r.job = "open" /\ r.doc = d
      /\ r.queue = << >>
  BY <1>u, JobFields DEF JobNames
<1>3. Moves(UI, r)
  BY <1>1
<1> HIDE DEF r
<1>4. ~IsClaim(r) /\ r.job \notin TellingJobs
      /\ threads[UI].job \notin TellingJobs
  BY <1>2, <1>u DEF IsClaim, TellingJobs
<1>5. ServersLast
  BY <1>0, TableLasts
<1>6. QED
  BY <1>0, <1>1, <1>2, <1>3, <1>4, <1>5, <1>u, AsideMove DEF flags

LEMMA ThreadBeginsAside ==
  ASSUME LspSyncAssumption, ProcessInv, ProcessInv', DocInv, NEW t \in Thread,
         \/ NextDocument(t)
         \/ t = Startup /\ WorkspaceServers
         \/ t \in Worker /\ Ask(t)
  PROVE  DocInv'
<1>0. /\ UNCHANGED <<clients, running, mirror, listed, version, opened>>
      /\ pendingOpen' \subseteq pendingOpen /\ At(t, "idle")
  BY DEF NextDocument, WorkspaceServers, Ask, table, docs, flags
<1>r. /\ threads[t] \in ThreadType /\ JobOK(t, threads[t])
      /\ threads[t].job = "none" /\ ~IsClaim(threads[t])
  BY <1>0, ThreadsHaveTypes DEF JobOK, At, IsClaim
<1>s. ServersLast
  BY <1>0, TableLasts
<1>q. threads[t].queue \in Seq(Doc)
  BY <1>r DEF ThreadType
<1>1. CASE NextDocument(t)
  <2> DEFINE d == Head(threads[t].queue)
             q == Tail(threads[t].queue)
  <2>1. threads[t].queue # << >> /\ d \in Doc /\ q \in Seq(Doc)
    BY <1>1, <1>q DEF NextDocument
  <2>2. /\ t = UI => d \in listed
        /\ t = UI => \A i \in DOMAIN q : q[i] \in listed
    <3>1. t = UI => \A i \in DOMAIN threads[t].queue :
                      threads[t].queue[i] \in listed
      BY DEF DocInv, ListsFit
    <3>2. 1 \in DOMAIN threads[t].queue /\ d = threads[t].queue[1]
      BY <1>q, <2>1
    <3>3. \A i \in DOMAIN q : i + 1 \in DOMAIN threads[t].queue
                              /\ q[i] = threads[t].queue[i + 1]
      BY <1>q, <2>1
    <3>4. QED
      BY <3>1, <3>2, <3>3
  <2>f. /\ Job(t, "open", d) \in ThreadType
        /\ Job(t, "open", d).pc = "lookup" /\ Job(t, "open", d).job = "open"
        /\ Job(t, "open", d).doc = d
        /\ Job(t, "open", d).there = (d \in listed)
        /\ Job(t, "open", d).queue = threads[t].queue
    BY <1>r, <2>1, JobFields DEF JobNames
  <2>3. CASE t = UI \/ d \in pendingOpen
    <3> DEFINE j == Job(t, "open", d)
               r == [j EXCEPT !.queue = q]
    <3>1. Moves(t, r)
      BY <1>1, <2>3, <2>f DEF NextDocument
    <3>2. d \in listed
      BY <2>2, <2>3 DEF DocInv, ListsFit
    <3> HIDE DEF j
    <3>3. /\ r \in ThreadType /\ r.pc = "lookup" /\ r.job = "open" /\ r.doc = d
          /\ r.queue = q /\ r.there
      BY <2>1, <2>f, <3>2 DEF ThreadType, j
    <3> HIDE DEF r, q, d
    <3>4. ~IsClaim(r) /\ r.job \notin TellingJobs
          /\ threads[t].job \notin TellingJobs
      BY <1>r, <3>3 DEF IsClaim, TellingJobs
    <3>5. QED
      BY <1>0, <1>r, <1>s, <2>2, <3>1, <3>2, <3>3, <3>4, AsideMove
  <2>4. CASE ~(t = UI \/ d \in pendingOpen)
    <3> DEFINE r == [threads[t] EXCEPT !.queue = q]
    <3>1. Moves(t, r) /\ t # UI
      BY <1>1, <2>4 DEF NextDocument
    <3>2. r \in ThreadType /\ r.job = "none" /\ ~IsClaim(r)
      BY <1>r, <2>1 DEF ThreadType, IsClaim
    <3> HIDE DEF r
    <3>3. QED
      BY <1>0, <1>r, <1>s, <3>1, <3>2, AsideMove
  <2>5. QED
    BY <2>3, <2>4
<1>2. ASSUME t # UI, NEW job \in {"workspace", "ask"},
             NEW d \in Doc \cup {Elsewhere}, Moves(t, Job(t, job, d))
      PROVE  DocInv'
  <2> DEFINE r == Job(t, job, d)
  <2>1. r \in ThreadType /\ r.pc = "lookup" /\ r.job = job
    BY <1>r, JobFields DEF JobNames
  <2>2. Moves(t, r)
    BY <1>2
  <2> HIDE DEF r
  <2>3. ~IsClaim(r) /\ r.job # "open"
    BY <2>1 DEF IsClaim
  <2>4. QED
    BY <1>0, <1>2, <1>r, <1>s, <2>1, <2>2, <2>3, AsideMove
<1>3. CASE t = Startup /\ WorkspaceServers
  <2>1. \E d \in Doc \cup {Elsewhere} : Moves(t, Job(t, "workspace", d))
    BY <1>3 DEF WorkspaceServers
  <2>2. t # UI
    BY <1>3 DEF LspSyncAssumption
  <2>3. QED
    BY <1>2, <2>1, <2>2
<1>4. CASE t \in Worker /\ Ask(t)
  <2>1. \E d \in Doc : Moves(t, Job(t, "ask", d))
    BY <1>4 DEF Ask
  <2>2. t # UI
    BY <1>4 DEF LspSyncAssumption
  <2>3. QED
    BY <1>2, <2>1, <2>2
<1>5. QED
  BY <1>1, <1>3, <1>4

\* Looking up the servers, for anything but to tell of a change.
LEMMA LooksAside ==
  ASSUME LspSyncAssumption, ProcessInv, ProcessInv', DocInv, NEW t \in Thread,
         threads[t].job \notin TellingJobs,
         \/ FindClient(t) \/ StartClient(t) \/ StartFailed(t)
         \/ NobodyToTell(t) \/ OpenedAlready(t)
  PROVE  DocInv'
<1>0. /\ UNCHANGED <<clients, running, mirror, docs, flags>>
      /\ threads[t].pc \in {"lookup", "starting"}
  BY DEF FindClient, StartClient, StartFailed, NobodyToTell, OpenedAlready,
         LookedUp, table, At
<1>r. /\ threads[t] \in ThreadType /\ JobOK(t, threads[t])
      /\ ~IsClaim(threads[t])
  BY <1>0, ThreadsHaveTypes DEF IsClaim
<1>s. ServersLast
  BY <1>0, TableLasts
<1>j. /\ threads[t].job \in {"open", "ask", "workspace"}
      /\ t = UI => threads[t].job = "open"
      /\ threads[t].must = {}
  BY <1>0, <1>r DEF JobOK, ThreadType, JobNames, TellingJobs, LspSyncAssumption
<1>1. ASSUME NEW r \in ThreadType, Moves(t, r), ~IsClaim(r),
             \/ r.job = "none"
             \/ /\ r.job = threads[t].job /\ r.doc = threads[t].doc
                /\ r.there = threads[t].there,
             r.queue = threads[t].queue \/ t # UI
      PROVE  DocInv'
  <2>1. CASE t = UI
    <3>1. /\ threads[UI].doc \in listed
          /\ \A i \in DOMAIN threads[UI].queue : threads[UI].queue[i] \in listed
      BY <1>j, <2>1 DEF DocInv, ListsFit, JobOf, DocOf
    <3>2. r.job \notin TellingJobs
      BY <1>1, <1>j DEF TellingJobs
    <3>3. QED
      BY <1>0, <1>1, <1>r, <1>s, <2>1, <3>1, <3>2, AsideMove DEF docs, flags
  <2>2. CASE t # UI
    <3>1. r.job = "open" => r.there
      BY <1>1, <2>2 DEF DocInv, ListsFit, JobOf
    <3>2. QED
      BY <1>0, <1>1, <1>r, <1>s, <2>2, <3>1, AsideMove DEF docs, flags
  <2>3. QED
    BY <2>1, <2>2
<1>o. /\ Over(t) \in ThreadType /\ ~IsClaim(Over(t)) /\ Over(t).job = "none"
      /\ Over(t).queue = threads[t].queue
  BY <1>r, OverFields DEF IsClaim
<1>f. ASSUME NEW k \in Nat, threads[t].todo # << >>, Moves(t, Found(t, k))
      PROVE  DocInv'
  <2> DEFINE r == Found(t, k)
  <2>1. /\ r \in ThreadType /\ r.pc = "lookup" /\ r.job = threads[t].job
        /\ r.doc = threads[t].doc /\ r.there = threads[t].there
        /\ r.queue = threads[t].queue
    BY <1>r, <1>f, FoundFields
  <2>2. Moves(t, r)
    BY <1>f
  <2> HIDE DEF r
  <2>3. ~IsClaim(r)
    BY <2>1 DEF IsClaim
  <2>4. QED
    BY <1>1, <2>1, <2>2, <2>3
<1>2. CASE FindClient(t)
  <2>1. threads[t].todo # << >>
        /\ Moves(t, Found(t, IF JobOf(t) = "workspace" THEN 0
                             ELSE clients[Wanted(t)]))
    BY <1>2 DEF FindClient
  <2>2. Wanted(t) \in Server
    BY <1>r, <2>1 DEF ThreadType, Wanted
  <2>3. clients[Wanted(t)] \in Nat
    BY <2>2, ProcessesHaveNumbers
  <2>4. QED
    BY <1>f, <2>1, <2>3
<1>3. CASE StartClient(t)
  <2> DEFINE r == [threads[t] EXCEPT !.pc = "starting"]
  <2>1. Moves(t, r)
    BY <1>3 DEF StartClient
  <2>2. /\ r \in ThreadType /\ ~IsClaim(r) /\ r.job = threads[t].job
        /\ r.doc = threads[t].doc /\ r.there = threads[t].there
        /\ r.queue = threads[t].queue
    BY <1>r DEF ThreadType, PcNames, IsClaim
  <2> HIDE DEF r
  <2>3. QED
    BY <1>1, <2>1, <2>2
<1>4. CASE StartFailed(t)
  <2>1. Moves(t, Found(t, 0)) /\ threads[t].todo # << >>
    BY <1>4, <1>j, <1>r DEF StartFailed, At, JobOK
  <2>2. QED
    BY <1>f, <2>1
<1>5. CASE NobodyToTell(t)
  <2>1. CASE threads[t].job = "workspace"
    <3> DEFINE r == [Idle EXCEPT !.pc = "halted"]
    <3>1. Moves(t, r)
      BY <1>5, <2>1 DEF NobodyToTell, JobOf
    <3>2. r \in ThreadType /\ ~IsClaim(r) /\ r.job = "none"
      BY IdleFields DEF ThreadType, PcNames, IsClaim
    <3> HIDE DEF r
    <3>3. QED
      BY <1>1, <1>j, <2>1, <3>1, <3>2
  <2>2. CASE threads[t].job # "workspace"
    <3>1. Moves(t, Over(t))
      BY <1>5, <1>j, <2>2 DEF NobodyToTell, JobOf
    <3>2. QED
      BY <1>1, <1>o, <3>1
  <2>3. QED
    BY <2>1, <2>2
<1>6. CASE OpenedAlready(t)
  <2>0. Moves(t, AfterOpen(t)) /\ threads[t].job # "workspace"
    BY <1>6, <1>r DEF OpenedAlready, LookedUp, At, JobOK
  <2>1. CASE threads[t].job = "ask"
    <3> DEFINE r == [threads[t] EXCEPT !.pc = "request"]
    <3>1. Moves(t, r)
      BY <1>r, <2>0, <2>1, AfterOpenFields DEF JobOf
    <3>2. /\ r \in ThreadType /\ ~IsClaim(r) /\ r.job = threads[t].job
          /\ r.doc = threads[t].doc /\ r.there = threads[t].there
          /\ r.queue = threads[t].queue
      BY <1>r DEF ThreadType, PcNames, IsClaim
    <3> HIDE DEF r
    <3>3. QED
      BY <1>1, <3>1, <3>2
  <2>2. CASE threads[t].job = "open"
    <3>1. Moves(t, Over(t))
      BY <1>r, <2>0, <2>2, AfterOpenFields DEF JobOf
    <3>2. QED
      BY <1>1, <1>o, <3>1
  <2>3. QED
    BY <1>j, <2>0, <2>1, <2>2
<1>7. QED
  BY <1>2, <1>3, <1>4, <1>5, <1>6

LEMMA ThreadEndsAside ==
  ASSUME LspSyncAssumption, ProcessInv, ProcessInv', DocInv, lapses' = {},
         NEW t \in Thread,
         \/ Request(t)
         \/ CloseOldClients(t)
         \/ SendOpen(t) /\ threads[t].job = "workspace"
  PROVE  DocInv'
<1>r. threads[t] \in ThreadType /\ JobOK(t, threads[t])
  BY ThreadsHaveTypes
<1>0. UNCHANGED <<docs, flags>>
  BY DEF Request, CloseOldClients, SendOpen
<1>1. CASE Request(t)
  <2>1. /\ Moves(t, Over(t)) /\ mirror' = mirror /\ threads[t].pc = "request"
    BY <1>1 DEF Request, At
  <2>2. ServersLast
    BY <1>1, <2>1, RequestDrops DEF ServersLast
  <2>3. t # UI /\ ~IsClaim(threads[t])
    BY <1>r, <2>1 DEF JobOK, IsClaim, LspSyncAssumption
  <2>4. /\ Over(t) \in ThreadType /\ ~IsClaim(Over(t))
        /\ Over(t).job # "open"
    BY <1>r, OverFields DEF IsClaim
  <2>5. QED
    BY <1>0, <1>r, <2>1, <2>2, <2>3, <2>4, AsideMove DEF docs, flags
<1>2. CASE CloseOldClients(t)
  <2>1. /\ running' \subseteq running /\ clients' = clients /\ mirror' = mirror
        /\ threads[t].pc = "reloading"
    BY <1>2 DEF CloseOldClients, At
  <2>2. t = UI /\ threads[t].job = "none" /\ ~IsClaim(threads[t])
    BY <1>r, <2>1 DEF JobOK, IsClaim
  <2>3. PICK S \in SUBSET listed :
          \E q \in Orders(S) : Moves(t, [Idle EXCEPT !.queue = q])
    BY <1>2 DEF CloseOldClients
  <2>4. PICK q \in Orders(S) : Moves(t, [Idle EXCEPT !.queue = q])
    BY <2>3
  <2>5. q \in Seq(Doc) /\ \A i \in DOMAIN q : q[i] \in listed
    <3>1. S \in SUBSET Doc /\ IsFiniteSet(Doc)
      BY DEF ProcessInv, LspStrongType, LspSyncAssumption
    <3>2. IsFiniteSet(S)
      BY <3>1, FS_Subset
    <3>3. q \in Seq(S) /\ \A i \in DOMAIN q : q[i] \in S
      BY <3>2, OrdersAreSequences
    <3>4. QED
      BY <3>1, <3>3
  <2> DEFINE r == [Idle EXCEPT !.queue = q]
  <2>6. /\ r \in ThreadType /\ r.job = "none" /\ r.queue = q /\ ~IsClaim(r)
        /\ Moves(t, r)
    BY <2>4, <2>5, IdleFields DEF ThreadType, IsClaim
  <2> HIDE DEF r
  <2>7. ServersLast
    BY <2>1 DEF ServersLast, Live
  <2>8. QED
    BY <1>0, <1>r, <2>2, <2>5, <2>6, <2>7, AsideMove
       DEF docs, flags, TellingJobs
<1>3. CASE SendOpen(t) /\ threads[t].job = "workspace"
  <2>1. /\ Moves(t, AfterOpen(t)) /\ UNCHANGED table
        /\ DocOf(t) \notin Doc
    BY <1>3 DEF SendOpen, Happens, JobOf
  <2>2. mirror' = mirror
    BY <1>3, <2>1, MessagesAreSent
  <2>3. ServersLast
    BY <2>1, <2>2 DEF ServersLast, Live, table
  <2>4. t # UI /\ ~IsClaim(threads[t])
    BY <1>3, <1>r DEF JobOK, IsClaim, LspSyncAssumption
  <2> DEFINE r == [threads[t] EXCEPT !.pc = "lookup", !.out = NoClients]
  <2>5. /\ Moves(t, r)
    BY <1>3, <1>r, <2>1, AfterOpenFields DEF JobOf
  <2>6. r \in ThreadType /\ ~IsClaim(r) /\ r.job # "open"
    BY <1>3, <1>r, NoClientsType DEF ThreadType, PcNames, IsClaim
  <2> HIDE DEF r
  <2>7. QED
    BY <1>0, <1>r, <2>3, <2>4, <2>5, <2>6, AsideMove DEF docs, flags
<1>4. QED
  BY <1>1, <1>2, <1>3

LEMMA ReloadForgets ==
  ASSUME LspSyncAssumption, ProcessInv, ProcessInv', DocInv, ReloadConfig
  PROVE  DocInv'
<1>1. /\ clients' = NoClients /\ mirror' = [s \in Server |-> NoTexts]
      /\ listed' = listed /\ opened' = opened /\ pendingOpen' = pendingOpen
      /\ Moves(UI, [Idle EXCEPT !.pc = "resetting", !.out = clients])
  BY DEF ReloadConfig, docs, flags
<1> DEFINE r == [Idle EXCEPT !.pc = "resetting", !.out = clients]
<1>2. /\ UI \in Thread /\ r \in ThreadType /\ r.job = "none"
      /\ r.queue = << >> /\ r.pc = "resetting"
  <2>1. clients \in [Server -> Nat]
    BY DEF ProcessInv, LspStrongType
  <2>2. QED
    BY <2>1, IdleFields DEF ThreadType, PcNames, Thread
<1>3. Moves(UI, r)
  BY <1>1
<1> HIDE DEF r
<1>4. /\ threads'[UI] = r
      /\ \A u \in Thread \ {UI} : threads'[u] = threads[u]
  BY <1>2, <1>3, OneMoves DEF ProcessInv, LspStrongType
<1>5. \A s \in Server : ~Live(s)'
  <2>1. \A s \in Server : clients'[s] = 0
    BY <1>1, NoClientsType
  <2>2. running' = running
    BY DEF ReloadConfig
  <2>3. QED
    BY <2>1, <2>2, ProcessesHaveNumbers DEF Live
<1>6. \A d \in Doc : ~Telling(d)'
  BY <1>2, <1>4 DEF Telling, JobOf
<1>7. \A u \in Thread, s \in Server, d \in Doc : ~Opener(u, s, d)'
  BY <1>5 DEF Opener, Reached
<1>8. ListsFit'
  <2>1. DocInv
    OBVIOUS
  <2>2. QED
    BY <1>1, <1>2, <1>4, <2>1 DEF DocInv, ListsFit, JobOf
<1>9. NotOpenedIsClosed'
  BY <1>1 DEF NotOpenedIsClosed, NoTexts
<1>10. TellingIsOpen'
  BY <1>2, <1>4 DEF TellingIsOpen, At, JobOf
<1>11. AllAreFound' /\ OpenedIsKnown'
  BY <1>5, <1>6 DEF AllAreFound, OpenedIsKnown
<1>12. OpenersAreAlone' /\ NobodyOvertakes'
  BY <1>6, <1>7 DEF OpenersAreAlone, NobodyOvertakes
<1>13. QED
  BY <1>8, <1>9, <1>10, <1>11, <1>12 DEF DocInv

\* Either no server has come up that a claim could have been made for, or
\* there was no claim.
LEMMA ResetForgets ==
  ASSUME LspSyncAssumption, ProcessInv, ProcessInv', DocInv, lapses' = {},
         NEW t \in Thread, ResetDocuments(t)
  PROVE  DocInv'
<1>r. /\ threads[t] \in ThreadType /\ JobOK(t, threads[t])
      /\ threads[t].pc = "resetting"
  BY ThreadsHaveTypes DEF ResetDocuments, At
<1>u. t = UI /\ UI \in Thread /\ threads[UI].job = "none"
  BY <1>r DEF JobOK
<1>1. /\ opened' = {} /\ pendingOpen' = {}
      /\ UNCHANGED <<docs, table, mirror>>
      /\ Moves(UI, [threads[UI] EXCEPT !.pc = "reloading"])
      /\ opened = {} \/ \A s \in Server : ~Live(s)
  BY <1>u DEF ResetDocuments, Happens
<1>2. /\ listed' = listed /\ clients' = clients /\ running' = running
      /\ mirror' = mirror
  BY <1>1 DEF docs, table
<1> DEFINE r == [threads[UI] EXCEPT !.pc = "reloading"]
<1>3. /\ r \in ThreadType /\ r.job = "none" /\ r.pc = "reloading"
      /\ r.queue = threads[UI].queue
  BY <1>r, <1>u DEF ThreadType, PcNames
<1>4. Moves(UI, r)
  BY <1>1
<1> HIDE DEF r
<1>5. /\ threads'[UI] = r
      /\ \A u \in Thread \ {UI} : threads'[u] = threads[u]
  BY <1>u, <1>3, <1>4, OneMoves DEF ProcessInv, LspStrongType
<1>6. \A d \in Doc : ~Telling(d)'
  BY <1>3, <1>5 DEF Telling, JobOf
<1>7. \A u \in Thread, s \in Server, d \in Doc : ~Opener(u, s, d)'
  <2>1. SUFFICES ASSUME NEW u \in Thread, NEW s \in Server, NEW d \in Doc,
                        Opener(u, s, d)'
                 PROVE  FALSE
    OBVIOUS
  <2>2. u # UI /\ threads'[u] = threads[u]
    BY <1>3, <1>5, <2>1 DEF Opener, Claims
  <2>3. Opener(u, s, d)
    BY <1>2, <2>1, <2>2 DEF Opener, Claims, Reached, Live, DocOf, JobOf
  <2>4. d \in opened /\ Live(s)
    BY <2>3 DEF DocInv, OpenersAreAlone, Opener, Reached
  <2>5. QED
    BY <1>1, <2>4
<1>8. ListsFit'
  <2>1. DocInv
    OBVIOUS
  <2>2. QED
    BY <1>1, <1>2, <1>3, <1>5, <2>1 DEF DocInv, ListsFit, JobOf
<1>9. NotOpenedIsClosed'
  <2>1. \A s \in Server, d \in Doc : mirror[s][d] = Closed
    BY <1>1 DEF DocInv, NotOpenedIsClosed, ProcessInv, OnlyTheLiveKnow,
                NoTexts
  <2>2. QED
    BY <1>2, <2>1 DEF NotOpenedIsClosed
<1>10. TellingIsOpen'
  BY <1>3, <1>5 DEF TellingIsOpen, At, JobOf
<1>11. AllAreFound' /\ OpenedIsKnown'
  BY <1>1 DEF AllAreFound, OpenedIsKnown
<1>12. OpenersAreAlone' /\ NobodyOvertakes'
  BY <1>6, <1>7 DEF OpenersAreAlone, NobodyOvertakes
<1>13. QED
  BY <1>8, <1>9, <1>10, <1>11, <1>12 DEF DocInv

\* The UI begins to tell of a document that nobody is opening.
LEMMA TellingBegins ==
  ASSUME ProcessInv, ProcessInv', DocInv, lapses' = {}, Ready,
         NEW d \in listed, NEW r \in ThreadType, Moves(UI, r),
         r.doc = d, r.job \in TellingJobs, r.queue = << >>,
         r.pc = "lookup" \/ (r.pc = "forget" /\ r.job = "close"),
         r.job = "close" => d \notin pendingOpen',
         r.job = "close" /\ r.pc = "lookup" => d \in opened,
         r.job = "change" => version'[d] >= 1,
         r.pc = "forget" => d \notin opened,
         r.pc = "lookup" /\ r.must = {} => r.todo = Names,
         opened' = opened, listed' = listed,
         pendingOpen' \subseteq pendingOpen, ServersLast, OvertakesOpen(d),
         \A e \in Doc \ {d} : version'[e] = version[e],
         \A s \in Server :
           d \in opened /\ Live(s)' /\ mirror'[s][d] = version[d] =>
             Has(s, d, mirror[s][d])'
  PROVE  DocInv'
<1>u. /\ UI \in Thread /\ threads[UI].job = "none" /\ ~IsClaim(threads[UI])
      /\ \A e \in Doc : ~Telling(e)
  BY UIHasNoClaim
<1>d. d \in Doc /\ opened \subseteq Doc
  BY DEF ProcessInv, LspStrongType
<1>1. /\ threads'[UI] = r
      /\ \A u \in Thread \ {UI} : threads'[u] = threads[u]
  BY <1>u, OneMoves DEF ProcessInv, LspStrongType
<1>2. \A u \in Thread : ~Claims(u, d)
  <2>1. ~BeingOpened(d)
    BY DEF OvertakesOpen, Happens
  <2>2. QED
    BY <1>u, <1>d, <2>1, ClaimsAndTelling DEF BeingOpened, Claims
<1>3. \A u \in Thread, e \in Doc :
        /\ Claims(u, e)' <=> Claims(u, e)
        /\ Claims(u, e) => threads'[u] = threads[u] /\ e # d
  BY <1>1, <1>2, <1>u DEF Claims, IsClaim, DocOf, JobOf
<1>4. \A e \in Doc : Telling(e)' <=> e = d
  BY <1>1 DEF Telling, TellingJobs, DocOf, JobOf
<1>5. \A u \in Thread, s \in Server, e \in Doc :
        /\ Opener(u, s, e)' =>
             Opener(u, s, e) /\ Live(s)' /\ threads'[u] = threads[u] /\ e # d
        /\ Opener(u, s, e) /\ Live(s)' => Opener(u, s, e)'
  <2>1. SUFFICES ASSUME NEW u \in Thread, NEW s \in Server, NEW e \in Doc,
                        Claims(u, e), threads'[u] = threads[u]
                 PROVE  /\ (s \in Reached(u))' => s \in Reached(u) /\ Live(s)'
                        /\ s \in Reached(u) /\ Live(s)' => (s \in Reached(u))'
    BY <1>3 DEF Opener
  <2>2. QED
    BY <2>1 DEF Reached, ServersLast
<1>6. DocInv
  OBVIOUS
<1>7. ListsFit'
  BY <1>1, <1>6, <1>u DEF DocInv, ListsFit, JobOf, DocOf
<1>8. OpenersAreAlone'
  <2>1. ASSUME NEW u \in Thread, NEW s \in Server, NEW e \in Doc,
               Opener(u, s, e)'
        PROVE  /\ e \in opened'
               /\ mirror'[s][e] = Closed
               /\ At(u, "opening")' => threads'[u].snap = version'[e]
               /\ \A v \in Thread : Opener(v, s, e)' => v = u
               /\ u = UI /\ JobOf(UI)' = "change" => s \in FullSync
    <3>1. Opener(u, s, e) /\ Live(s)' /\ threads'[u] = threads[u] /\ e # d
      BY <1>5, <2>1
    <3>2. mirror'[s] = mirror[s] /\ version'[e] = version[e]
      BY <3>1 DEF ServersLast
    <3>3. QED
      BY <1>5, <1>6, <3>1, <3>2 DEF DocInv, OpenersAreAlone, At, JobOf
  <2>2. QED
    BY <2>1 DEF OpenersAreAlone
<1>9. NobodyOvertakes'
  BY <1>3, <1>4 DEF NobodyOvertakes
<1>10. AllAreFound'
  <2>1. ASSUME NEW e \in opened', NEW s \in Server, Telling(e)',
               threads'[UI].must = {}, Live(s)'
        PROVE  \/ threads'[UI].out[s] = clients'[s]
               \/ \E i \in DOMAIN threads'[UI].todo : threads'[UI].todo[i] = s
    <3>1. e = d
      BY <1>4, <1>d, <2>1
    <3>2. r.todo = Names
      BY <1>1, <2>1, <3>1
    <3>3. QED
      BY <1>1, <3>2 DEF Server
  <2>2. QED
    BY <2>1 DEF AllAreFound
<1>11. TellingIsOpen'
  BY <1>1 DEF TellingIsOpen, At, JobOf, DocOf
<1>12. NotOpenedIsClosed'
  BY <1>6, WhatTheyKnowLasts DEF DocInv
<1>13. OpenedIsKnown'
  <2>1. ASSUME NEW e \in opened', NEW s \in Server, Live(s)',
               \A u \in Thread : ~Opener(u, s, e)'
        PROVE  Has(s, e, mirror[s][e])'
    <3>1. e \in opened /\ e \in Doc
      BY <1>d, <2>1
    <3>2. Live(s) /\ mirror'[s] = mirror[s]
      BY <2>1 DEF ServersLast
    <3>3. Has(s, e, mirror[s][e])
      BY <1>5, <1>6, <2>1, <3>1, <3>2 DEF DocInv, OpenedIsKnown
    <3>4. mirror[s][e] = version[e]
      BY <1>u, <3>1, <3>3 DEF Has
    <3>5. CASE e = d
      BY <2>1, <3>1, <3>2, <3>4, <3>5
    <3>6. CASE e # d
      <4>1. ~Telling(e)' /\ version'[e] = version[e]
        BY <1>4, <3>1, <3>6
      <4>2. QED
        BY <3>2, <3>4, <4>1 DEF Has, Telling
    <3>7. QED
      BY <3>5, <3>6
  <2>2. QED
    BY <2>1 DEF OpenedIsKnown
<1>14. QED
  BY <1>7, <1>8, <1>9, <1>10, <1>11, <1>12, <1>13 DEF DocInv

LEMMA EditBegins ==
  ASSUME LspSyncAssumption, ProcessInv, ProcessInv', DocInv, lapses' = {}, Edit
  PROVE  DocInv'
<1>0. /\ Ready
      /\ UNCHANGED <<listed, opened, pendingOpen, clients, running, mirror>>
  BY DEF Edit, flags, table
<1>1. PICK d \in listed : /\ version' = [version EXCEPT ![d] = @ + 1]
                          /\ Moves(UI, Job(UI, "change", d))
                          /\ OvertakesOpen(d)
  BY DEF Edit
<1>2. d \in Doc /\ version \in [Doc -> Nat]
  BY DEF ProcessInv, LspStrongType
<1>u. /\ UI \in Thread /\ threads[UI] \in ThreadType
      /\ threads[UI].queue = << >> /\ threads[UI].must = {}
  BY <1>0, UIHasNoClaim
<1> DEFINE r == Job(UI, "change", d)
<1>3. /\ r \in ThreadType /\ r.pc = "lookup" /\ r.job = "change"
      /\ r.doc = d /\ r.todo = Names /\ r.queue = << >>
  BY <1>2, <1>u, JobFields DEF JobNames
<1>4. Moves(UI, r)
  BY <1>1
<1> HIDE DEF r
<1>5. ServersLast
  BY <1>0, TableLasts
<1>6. threads'[UI] = r
  BY <1>u, <1>3, <1>4, OneMoves DEF ProcessInv, LspStrongType
<1>7. ASSUME NEW s \in Server, mirror'[s][d] = version[d]
      PROVE  Has(s, d, mirror[s][d])'
  <2>1. mirror'[s][d] = version'[d] - 1
    BY <1>1, <1>2, <1>7
  <2>2. Telling(d)' /\ JobOf(UI)' = "change"
    BY <1>3, <1>6 DEF Telling, DocOf, JobOf
  <2>3. QED
    BY <2>1, <2>2 DEF Has
<1>8. r.job \in TellingJobs
  BY <1>3 DEF TellingJobs
<1>9. \A e \in Doc \ {d} : version'[e] = version[e]
  BY <1>1, <1>2
<1>10. version'[d] >= 1
  BY <1>1, <1>2
<1>11. QED
  BY <1>0, <1>1, <1>3, <1>4, <1>5, <1>7, <1>8, <1>9, <1>10, TellingBegins

LEMMA CloseBegins ==
  ASSUME LspSyncAssumption, ProcessInv, ProcessInv', DocInv, lapses' = {},
         CloseDocument
  PROVE  DocInv'
<1>0. /\ Ready
      /\ UNCHANGED <<listed, version, opened, clients, running, mirror>>
  BY DEF CloseDocument, docs, table
<1>1. PICK d \in listed :
        /\ pendingOpen' = pendingOpen \ {d}
        /\ Moves(UI, IF d \in opened THEN Job(UI, "close", d)
                     ELSE [Job(UI, "close", d) EXCEPT !.pc = "forget"])
        /\ OvertakesOpen(d)
  BY DEF CloseDocument
<1>2. d \in Doc
  BY DEF ProcessInv, LspStrongType
<1>u. /\ UI \in Thread /\ threads[UI] \in ThreadType
      /\ threads[UI].queue = << >>
  BY <1>0, UIHasNoClaim
<1> DEFINE j == Job(UI, "close", d)
           r == IF d \in opened THEN j ELSE [j EXCEPT !.pc = "forget"]
<1>j. /\ j \in ThreadType /\ j.pc = "lookup" /\ j.job = "close"
      /\ j.doc = d /\ j.todo = Names /\ j.queue = << >>
  BY <1>2, <1>u, JobFields DEF JobNames
<1>4. Moves(UI, r)
  BY <1>1
<1> HIDE DEF j
<1>3. /\ r \in ThreadType /\ r.job = "close" /\ r.doc = d /\ r.todo = Names
      /\ r.queue = << >>
      /\ d \in opened => r.pc = "lookup"
      /\ d \notin opened => r.pc = "forget"
  BY <1>j DEF ThreadType, PcNames
<1> HIDE DEF r
<1>5. ServersLast
  BY <1>0, TableLasts
<1>6. threads'[UI] = r
  BY <1>u, <1>3, <1>4, OneMoves DEF ProcessInv, LspStrongType
<1>7. ASSUME NEW s \in Server, d \in opened, mirror'[s][d] = version[d]
      PROVE  Has(s, d, mirror[s][d])'
  BY <1>0, <1>3, <1>6, <1>7 DEF Has, Telling, DocOf, JobOf, At
<1>8. r.job \in TellingJobs
  BY <1>3 DEF TellingJobs
<1>9. QED
  BY <1>0, <1>1, <1>3, <1>4, <1>5, <1>7, <1>8, TellingBegins

LEMMA RestartBegins ==
  ASSUME LspSyncAssumption, ProcessInv, ProcessInv', DocInv, lapses' = {},
         RestartLanguageServers
  PROVE  DocInv'
<1>0. Ready /\ UNCHANGED <<listed, version, opened, pendingOpen>>
  BY DEF RestartLanguageServers, docs, flags
<1>1. PICK d \in listed, S \in (SUBSET Server) \ {{}} :
        /\ StopClients(S)
        /\ \E q \in Orders(S) :
             Moves(UI, [Job(UI, "restart", d) EXCEPT !.must = S, !.todo = q])
        /\ OvertakesOpen(d)
  BY DEF RestartLanguageServers
<1>q. PICK q \in Orders(S) :
        Moves(UI, [Job(UI, "restart", d) EXCEPT !.must = S, !.todo = q])
  BY <1>1
<1>2. d \in Doc
  BY DEF ProcessInv, LspStrongType
<1>s. q \in Seq(Server)
  <2>1. IsFiniteSet(S)
    BY ServersAreFinite
  <2>2. q \in Seq(S)
    BY <2>1, OrdersAreSequences
  <2>3. QED
    BY <2>2
<1>u. /\ UI \in Thread /\ threads[UI] \in ThreadType
      /\ threads[UI].queue = << >>
  BY <1>0, UIHasNoClaim
<1> DEFINE j == Job(UI, "restart", d)
           r == [j EXCEPT !.must = S, !.todo = q]
<1>j. /\ j \in ThreadType /\ j.pc = "lookup" /\ j.job = "restart"
      /\ j.doc = d /\ j.queue = << >>
  BY <1>2, <1>u, JobFields DEF JobNames
<1>4. Moves(UI, r)
  BY <1>q
<1> HIDE DEF j
<1>3. /\ r \in ThreadType /\ r.job = "restart" /\ r.doc = d /\ r.must # {}
      /\ r.queue = << >> /\ r.pc = "lookup"
  BY <1>j, <1>s DEF ThreadType
<1> HIDE DEF r
<1>5. ServersLast
  BY <1>1, StopsClients DEF ServersLast
<1>6. threads'[UI] = r
  BY <1>u, <1>3, <1>4, OneMoves DEF ProcessInv, LspStrongType
<1>7. ASSUME NEW s \in Server, mirror'[s][d] = version[d]
      PROVE  Has(s, d, mirror[s][d])'
  BY <1>0, <1>3, <1>6, <1>7 DEF Has, Telling, DocOf, JobOf
<1>8. r.job \in TellingJobs
  BY <1>3 DEF TellingJobs
<1>9. QED
  BY <1>0, <1>1, <1>3, <1>4, <1>5, <1>7, <1>8, TellingBegins
\* The UI goes on with what it tells, and claims nothing meanwhile.
LEMMA UITells ==
  ASSUME LspSyncAssumption, ProcessInv, ProcessInv', DocInv,
         NEW d \in Doc, Telling(d), ~IsClaim(threads[UI]),
         NEW r \in ThreadType, Moves(UI, r), ~IsClaim(r),
         r.queue = threads[UI].queue,
         r.job = "none" \/ (r.job = threads[UI].job /\ r.doc = d),
         UNCHANGED <<clients, running, docs, flags>>,
         \A s \in Server, e \in Doc :
           e # d \/ d \notin opened => mirror'[s][e] = mirror[s][e],
         r.pc = "tell" => d \in opened,
         r.job = "close" /\ r.pc # "forget" =>
           d \in opened /\ r.pc \in {"lookup", "starting", "tell"},
         r.job # "none" /\ r.must = {} /\ d \in opened =>
           \A s \in Server : Live(s) =>
             \/ r.out[s] = clients[s]
             \/ \E i \in DOMAIN r.todo : r.todo[i] = s,
         \A s \in Server :
           d \in opened /\ Live(s) /\ Has(s, d, mirror[s][d]) =>
             Has(s, d, mirror[s][d])'
  PROVE  DocInv'
<1>u. UI \in Thread /\ threads[UI].doc = d /\ threads[UI].job \in TellingJobs
  BY DEF Thread, Telling, DocOf, JobOf, TellingJobs
<1>1. /\ threads'[UI] = r
      /\ \A u \in Thread \ {UI} : threads'[u] = threads[u]
  BY <1>u, OneMoves DEF ProcessInv, LspStrongType
<1>2. /\ r.job = "none" => r.doc = "none" /\ r.pc \notin {"lookup", "tell"}
      /\ r.job # "workspace"
  BY <1>u, <1>1, ThreadsHaveTypes DEF ProcessInv, JobsFit, JobOK, TellingJobs
<1>3. DocInv
  OBVIOUS
<1>4. \A u \in Thread : ~Claims(u, d) /\ ~Claims(u, d)'
  BY <1>1, <1>3, <1>u DEF DocInv, NobodyOvertakes, Claims, IsClaim, DocOf, JobOf
<1>5. \A u \in Thread, e \in Doc :
        /\ Claims(u, e)' <=> Claims(u, e)
        /\ Claims(u, e) => threads'[u] = threads[u] /\ e # d /\ u # UI
  BY <1>1, <1>4, <1>u DEF Claims, IsClaim, DocOf, JobOf
<1>6. \A e \in Doc : Telling(e)' => e = d /\ r.job # "none"
  BY <1>1, <1>2 DEF Telling, DocOf, JobOf
<1>7. \A s \in Server : Live(s)' <=> Live(s)
  BY DEF Live
<1>8. \A u \in Thread, s \in Server, e \in Doc :
        /\ Opener(u, s, e)' <=> Opener(u, s, e)
        /\ Opener(u, s, e) => threads'[u] = threads[u] /\ e # d /\ u # UI
  BY <1>5, <1>7 DEF Opener, Reached
<1>9. ListsFit'
  BY <1>1, <1>2, <1>3, <1>u
     DEF DocInv, ListsFit, JobOf, DocOf, TellingJobs, docs, flags
<1>10. OpenersAreAlone'
  <2>1. ASSUME NEW u \in Thread, NEW s \in Server, NEW e \in Doc,
               Opener(u, s, e)'
        PROVE  /\ e \in opened'
               /\ mirror'[s][e] = Closed
               /\ At(u, "opening")' => threads'[u].snap = version'[e]
               /\ \A v \in Thread : Opener(v, s, e)' => v = u
               /\ u = UI /\ JobOf(UI)' = "change" => s \in FullSync
    BY <1>3, <1>8, <2>1 DEF DocInv, OpenersAreAlone, At, docs, flags
  <2>2. QED
    BY <2>1 DEF OpenersAreAlone
<1>11. NobodyOvertakes'
  BY <1>4, <1>6 DEF NobodyOvertakes
<1>12. AllAreFound'
  <2>1. ASSUME NEW e \in opened', NEW s \in Server, Telling(e)',
               threads'[UI].must = {}, Live(s)'
        PROVE  \/ threads'[UI].out[s] = clients'[s]
               \/ \E i \in DOMAIN threads'[UI].todo : threads'[UI].todo[i] = s
    <3>1. e \in opened /\ e \in Doc
      BY <2>1 DEF flags, ProcessInv, LspStrongType
    <3>2. e = d /\ r.job # "none" /\ r.must = {} /\ Live(s)
      BY <1>1, <1>6, <1>7, <2>1, <3>1
    <3>3. QED
      BY <1>1, <3>1, <3>2
  <2>2. QED
    BY <2>1 DEF AllAreFound
<1>13. TellingIsOpen'
  BY <1>1, <1>2, <1>3, <1>u
     DEF DocInv, TellingIsOpen, At, JobOf, DocOf, IsClaim, docs, flags
<1>14. NotOpenedIsClosed'
  BY <1>3 DEF DocInv, NotOpenedIsClosed, flags
<1>15. OpenedIsKnown'
  <2>1. ASSUME NEW e \in opened', NEW s \in Server, Live(s)',
               \A u \in Thread : ~Opener(u, s, e)'
        PROVE  Has(s, e, mirror[s][e])'
    <3>1. e \in opened /\ e \in Doc
      BY <2>1 DEF flags, ProcessInv, LspStrongType
    <3>2. Live(s) /\ Has(s, e, mirror[s][e])
      BY <1>3, <1>7, <1>8, <2>1, <3>1 DEF DocInv, OpenedIsKnown
    <3>3. CASE e = d
      BY <3>1, <3>2, <3>3
    <3>4. CASE e # d
      <4>1. ~Telling(e)
        BY <1>u, <3>4 DEF Telling, DocOf
      <4>2. mirror'[s][e] = mirror[s][e] /\ version'[e] = version[e]
        BY <3>1, <3>4 DEF docs
      <4>3. mirror'[s][e] = version'[e]
        BY <3>2, <4>1, <4>2 DEF Has
      <4>4. ~Telling(e)'
        BY <1>6, <3>1, <3>4
      <4>5. QED
        BY <4>3, <4>4 DEF Has, Telling
    <3>5. QED
      BY <3>3, <3>4
  <2>2. QED
    BY <2>1 DEF OpenedIsKnown
<1>16. QED
  BY <1>9, <1>10, <1>11, <1>12, <1>13, <1>14, <1>15 DEF DocInv
LEMMA TailHasTheRest ==
  ASSUME NEW S, NEW q \in Seq(S), q # << >>, NEW i \in DOMAIN q, q[i] # Head(q)
  PROVE  \E j \in DOMAIN Tail(q) : Tail(q)[j] = q[i]
<1>1. i \in 2 .. Len(q)
  OBVIOUS
<1>2. i - 1 \in DOMAIN Tail(q) /\ Tail(q)[i - 1] = q[i]
  BY <1>1
<1>3. QED
  BY <1>2

\* The UI looks up the servers it is going to tell, and waits for their starts.
LEMMA LooksTelling ==
  ASSUME LspSyncAssumption, ProcessInv, ProcessInv', DocInv, lapses' = {},
         threads[UI].job \in TellingJobs,
         \/ FindClient(UI) \/ StartClient(UI) \/ StartFailed(UI)
         \/ NobodyToTell(UI) \/ OpenedAlready(UI) \/ Restarted(UI)
  PROVE  DocInv'
<1>0. /\ UNCHANGED <<clients, running, mirror, docs, flags>>
      /\ threads[UI].pc \in {"lookup", "starting"}
  BY DEF FindClient, StartClient, StartFailed, NobodyToTell, OpenedAlready,
         Restarted, LookedUp, table, At
<1>u. UI \in Thread
  BY DEF Thread
<1>r. /\ threads[UI] \in ThreadType /\ JobOK(UI, threads[UI])
      /\ ~IsClaim(threads[UI]) /\ threads[UI].doc \in Doc
  BY <1>0, <1>u, ThreadsHaveTypes DEF IsClaim, JobOK, TellingJobs
<1>d. PICK d \in Doc : threads[UI].doc = d
  BY <1>r
<1>j. PICK job \in TellingJobs : threads[UI].job = job
  OBVIOUS
<1>t. Telling(d)
  BY <1>d DEF Telling, DocOf, JobOf, TellingJobs
<1>c. /\ job = "close" => d \in opened
      /\ d \in opened /\ threads[UI].must = {} =>
           \A s \in Server : Live(s) =>
             \/ threads[UI].out[s] = clients[s]
             \/ \E i \in DOMAIN threads[UI].todo : threads[UI].todo[i] = s
  BY <1>0, <1>d, <1>j, <1>t
     DEF DocInv, TellingIsOpen, AllAreFound, JobOf, DocOf, At
<1>k. \A s \in Server : clients[s] \in Nat /\ (Live(s) => clients[s] # 0)
  BY ProcessesHaveNumbers DEF Live
<1>1. ASSUME NEW r \in ThreadType, Moves(UI, r),
             r.pc \in {"lookup", "starting", "tell"},
             r.pc = "tell" => d \in opened,
             r.job = job, r.doc = d, r.queue = threads[UI].queue,
             \/ r.must = {}
             \/ /\ r.must = threads[UI].must
                /\ \A s \in Server : threads[UI].out[s] # 0 => r.out[s] # 0,
             r.must = {} /\ d \in opened =>
               \A s \in Server : Live(s) =>
                 \/ r.out[s] = clients[s]
                 \/ \E i \in DOMAIN r.todo : r.todo[i] = s
      PROVE  DocInv'
  <2>1. threads'[UI] = r
    BY <1>1, <1>u, OneMoves DEF ProcessInv, LspStrongType
  <2>2. ASSUME NEW s \in Server, Has(s, d, mirror[s][d])
        PROVE  Has(s, d, mirror[s][d])'
    <3>1. /\ Telling(d)' <=> Telling(d)
          /\ JobOf(UI)' = JobOf(UI) /\ ~At(UI, "forget") /\ ~At(UI, "forget")'
      BY <1>0, <1>1, <1>d, <1>j, <1>t, <2>1
         DEF Telling, DocOf, JobOf, At, TellingJobs
    <3>2. mirror'[s][d] = mirror[s][d] /\ version'[d] = version[d]
      BY <1>0 DEF docs
    <3>3. QED
      BY <1>1, <2>1, <2>2, <3>1, <3>2 DEF Has
  <2>3. ~IsClaim(r)
    BY <1>1 DEF IsClaim
  <2>4. QED
    BY <1>0, <1>1, <1>c, <1>r, <1>t, <2>2, <2>3, UITells, <1>j
<1>o. ASSUME Moves(UI, Over(UI)),
             \A s \in Server : d \in opened /\ Live(s) /\
               Has(s, d, mirror[s][d]) => mirror[s][d] = version[d]
      PROVE  DocInv'
  <2> DEFINE r == Over(UI)
  <2>1. /\ r \in ThreadType /\ r.pc = "idle" /\ r.job = "none"
        /\ r.queue = threads[UI].queue
    BY <1>r, <1>u, OverFields
  <2>2. Moves(UI, r)
    BY <1>o
  <2> HIDE DEF r
  <2>3. threads'[UI] = r
    BY <2>1, <2>2, <1>u, OneMoves DEF ProcessInv, LspStrongType
  <2>4. ASSUME NEW s \in Server, d \in opened, Live(s), Has(s, d, mirror[s][d])
        PROVE  Has(s, d, mirror[s][d])'
    <3>1. ~Telling(d)'
      BY <2>1, <2>3 DEF Telling, JobOf
    <3>2. mirror'[s][d] = version'[d]
      BY <1>0, <1>o, <2>4 DEF docs
    <3>3. QED
      BY <3>1, <3>2 DEF Has, Telling
  <2>5. ~IsClaim(r)
    BY <2>1 DEF IsClaim
  <2>6. QED
    BY <1>0, <1>r, <1>t, <2>1, <2>2, <2>4, <2>5, UITells
<1>f. ASSUME NEW k \in Nat, threads[UI].todo # << >>, Moves(UI, Found(UI, k)),
             k = clients[Wanted(UI)], threads[UI].must = {} \/ k # 0
      PROVE  DocInv'
  <2> DEFINE r == Found(UI, k)
             w == Wanted(UI)
  <2>1. /\ w \in Server
        /\ r \in ThreadType /\ r.pc = "lookup" /\ r.job = job
        /\ r.doc = d /\ r.queue = threads[UI].queue
        /\ r.must = threads[UI].must
        /\ r.todo = Tail(threads[UI].todo)
        /\ r.out = [threads[UI].out EXCEPT ![w] = k]
    BY <1>r, <1>f, <1>u, FoundFields, <1>d, <1>j
  <2>2. Moves(UI, r)
    BY <1>f
  <2> HIDE DEF r
  <2>3. \A s \in Server : r.out[s] = IF s = w THEN k ELSE threads[UI].out[s]
    BY <1>r, <2>1 DEF ThreadType
  <2>4. ASSUME r.must = {}, d \in opened, NEW s \in Server, Live(s)
        PROVE  \/ r.out[s] = clients[s]
               \/ \E i \in DOMAIN r.todo : r.todo[i] = s
    <3>1. CASE s = w
      BY <1>f, <2>3, <3>1
    <3>2. CASE s # w /\ threads[UI].out[s] = clients[s]
      BY <2>3, <3>2
    <3>3. ASSUME s # w, NEW i \in DOMAIN threads[UI].todo,
                 threads[UI].todo[i] = s
          PROVE  \E j \in DOMAIN r.todo : r.todo[j] = s
      <4>1. threads[UI].todo \in Seq(Server) /\ s # Head(threads[UI].todo)
        BY <1>r, <3>3 DEF ThreadType, Wanted
      <4>2. threads[UI].todo # << >> /\ r.todo = Tail(threads[UI].todo)
        BY <1>f, <2>1
      <4>3. \E j \in DOMAIN Tail(threads[UI].todo) :
              Tail(threads[UI].todo)[j] = threads[UI].todo[i]
        BY <3>3, <4>1, <4>2, TailHasTheRest
      <4>4. QED
        BY <3>3, <4>2, <4>3
    <3>4. QED
      BY <1>c, <2>1, <2>4, <3>1, <3>2, <3>3
  <2>5. QED
    BY <1>1, <1>f, <2>1, <2>2, <2>3, <2>4
<1>2. CASE FindClient(UI)
  <2>1. /\ threads[UI].todo # << >> /\ clients[Wanted(UI)] # 0
        /\ Moves(UI, Found(UI, clients[Wanted(UI)]))
    BY <1>2, <1>t, <1>j DEF FindClient, JobOf, TellingJobs
  <2>2. Wanted(UI) \in Server
    BY <1>r, <2>1 DEF ThreadType, Wanted
  <2>3. QED
    BY <1>f, <1>k, <2>1, <2>2
<1>3. CASE StartClient(UI)
  <2> DEFINE r == [threads[UI] EXCEPT !.pc = "starting"]
  <2>1. Moves(UI, r)
    BY <1>3 DEF StartClient
  <2>2. /\ r \in ThreadType /\ r.pc = "starting" /\ r.job = job /\ r.doc = d
        /\ r.queue = threads[UI].queue /\ r.must = threads[UI].must
        /\ r.out = threads[UI].out /\ r.todo = threads[UI].todo
    BY <1>r, <1>d, <1>j DEF ThreadType, PcNames
  <2> HIDE DEF r
  <2>3. QED
    BY <1>1, <1>c, <2>1, <2>2
<1>4. CASE StartFailed(UI)
  <2>1. At(UI, "starting") /\ threads[UI].todo # << >>
        /\ clients[Wanted(UI)] = 0
    BY <1>4, <1>r, <1>u
       DEF StartFailed, At, JobOK, ProcessInv, LockIsHeld
  <2>2. CASE threads[UI].must = {}
    <3>1. Moves(UI, Found(UI, 0))
      BY <1>4, <2>2 DEF StartFailed
    <3>2. QED
      BY <1>f, <2>1, <2>2, <3>1
  <2>3. CASE threads[UI].must # {}
    <3>1. Moves(UI, Over(UI))
      BY <1>4, <2>3 DEF StartFailed
    <3>2. threads[UI].out = NoClients \/ d \notin opened
      BY <1>4, <2>3, <1>d DEF StartFailed, Happens, DocOf
    <3>3. ASSUME NEW s \in Server, d \in opened, Has(s, d, mirror[s][d])
          PROVE  mirror[s][d] = version[d]
      <4>1. threads[UI].out[s] = 0
        BY <3>2, <3>3, NoClientsType
      <4>2. JobOf(UI) = "restart"
        BY <1>r, <2>3 DEF JobOK, JobOf
      <4>3. QED
        BY <1>t, <2>3, <3>3, <4>1, <4>2, <1>j DEF Has
    <3>4. QED
      BY <1>o, <3>1, <3>3
  <2>4. QED
    BY <2>2, <2>3
<1>5. CASE NobodyToTell(UI)
  <2>1. /\ threads[UI].out = NoClients /\ threads[UI].todo = << >>
        /\ threads[UI].must = {}
    BY <1>5 DEF NobodyToTell, LookedUp
  <2>2. d \in opened => \A s \in Server : ~Live(s)
    BY <1>c, <1>k, <2>1, NoClientsType
  <2>3. CASE job = "close"
    <3> DEFINE r == [threads[UI] EXCEPT !.pc = "forget"]
    <3>1. Moves(UI, r)
      BY <1>5, <2>3, <1>j DEF NobodyToTell, JobOf
    <3>2. /\ r \in ThreadType /\ r.pc = "forget" /\ r.job = job /\ r.doc = d
          /\ r.queue = threads[UI].queue
      BY <1>r, <1>d, <1>j DEF ThreadType, PcNames
    <3> HIDE DEF r
    <3>3. ~IsClaim(r)
      BY <3>2 DEF IsClaim
    <3>4. QED
      BY <1>0, <1>r, <1>t, <2>2, <3>1, <3>2, <3>3, UITells, <1>j
  <2>4. CASE job # "close"
    <3>1. Moves(UI, Over(UI))
      BY <1>5, <1>t, <2>4, <1>j DEF NobodyToTell, JobOf, TellingJobs
    <3>2. QED
      BY <1>o, <2>2, <3>1
  <2>5. QED
    BY <2>3, <2>4
<1>6. CASE OpenedAlready(UI)
  <2> DEFINE r == [threads[UI] EXCEPT !.pc = "tell"]
  <2>1. /\ Moves(UI, AfterOpen(UI)) /\ d \in opened /\ threads[UI].must = {}
    BY <1>6, <1>d DEF OpenedAlready, LookedUp, DocOf
  <2>2. Moves(UI, r)
    BY <1>r, <1>t, <1>u, <2>1, AfterOpenFields, <1>j DEF JobOf, TellingJobs
  <2>3. /\ r \in ThreadType /\ r.pc = "tell" /\ r.job = job /\ r.doc = d
        /\ r.queue = threads[UI].queue /\ r.must = threads[UI].must
        /\ r.out = threads[UI].out /\ r.todo = threads[UI].todo
    BY <1>r, <1>d, <1>j DEF ThreadType, PcNames
  <2> HIDE DEF r
  <2>4. QED
    BY <1>1, <1>c, <2>1, <2>2, <2>3
<1>7. CASE Restarted(UI)
  <2> DEFINE j == Job(UI, "restart", d)
             r == [j EXCEPT !.must = {}, !.out = NoClients]
  <2>1. /\ Moves(UI, r) /\ threads[UI].must # {}
    BY <1>7, <1>d DEF Restarted, DocOf
  <2>2. job = "restart"
    BY <1>r, <2>1, <1>j DEF JobOK
  <2>3. /\ j \in ThreadType /\ j.pc = "lookup" /\ j.job = "restart" /\ j.doc = d
        /\ j.todo = Names /\ j.queue = threads[UI].queue
    BY <1>r, <1>t, <1>u, JobFields, <1>j DEF JobNames
  <2> HIDE DEF j
  <2>4. /\ r \in ThreadType /\ r.pc = "lookup" /\ r.job = job /\ r.doc = d
        /\ r.todo = Names /\ r.queue = threads[UI].queue /\ r.must = {}
    BY <2>2, <2>3, NoClientsType DEF ThreadType
  <2> HIDE DEF r
  <2>5. \A s \in Server : \E i \in DOMAIN r.todo : r.todo[i] = s
    BY <2>4 DEF Server
  <2>6. QED
    BY <1>1, <2>1, <2>4, <2>5
<1>8. QED
  BY <1>2, <1>3, <1>4, <1>5, <1>6, <1>7
\* The UI sends what it has to tell to the servers, and all get it.
LEMMA TellsAll ==
  ASSUME LspSyncAssumption, ProcessInv, ProcessInv', DocInv, lapses' = {},
         TellChange(UI) \/ TellClosed(UI) \/ TellReopened(UI)
  PROVE  DocInv'
<1>u. UI \in Thread
  BY DEF Thread
<1>0. /\ UNCHANGED <<clients, running, docs, flags>>
      /\ threads[UI].pc = "tell"
  BY DEF TellChange, TellClosed, TellReopened, table, At
<1>r. /\ threads[UI] \in ThreadType /\ JobOK(UI, threads[UI])
      /\ ~IsClaim(threads[UI]) /\ threads[UI].job \in TellingJobs
      /\ threads[UI].doc \in Doc /\ threads[UI].todo = << >>
      /\ threads[UI].must = {}
  BY <1>0, <1>u, ThreadsHaveTypes DEF IsClaim, JobOK, TellingJobs
<1>d. PICK d \in Doc : threads[UI].doc = d
  BY <1>r
<1>t. Telling(d)
  BY <1>d, <1>r DEF Telling, DocOf, JobOf, TellingJobs
<1>v. version[d] \in Nat /\ mirror \in [Server -> [Doc -> Int]]
  BY DEF ProcessInv, LspStrongType
<1>c. /\ d \in opened
      /\ threads[UI].job = "change" => version[d] >= 1
  BY <1>0, <1>d DEF DocInv, TellingIsOpen, JobOf, DocOf, At
<1>s. \A s \in Server : Live(s) => s \in Reached(UI)
  BY <1>c, <1>r, <1>t DEF DocInv, AllAreFound, Reached
<1>n. \A s \in Server : ~At(UI, "forget")
  BY <1>0 DEF At
<1>1. ASSUME NEW f \in [Server -> Int], Sends(UI, f),
             NEW r \in ThreadType, Moves(UI, r), ~IsClaim(r),
             r.pc \notin {"lookup", "tell"},
             r.queue = threads[UI].queue,
             \/ r.job = "none"
             \/ /\ r.job = threads[UI].job /\ r.doc = d
                /\ r.todo = threads[UI].todo /\ r.out = threads[UI].out,
             r.job = "close" => r.pc = "forget",
             \A s \in Server :
               Live(s) /\ Has(s, d, mirror[s][d]) =>
                 Has(s, d, mirror[s][d])'
      PROVE  DocInv'
  <2>1. DocOf(UI) = d
    BY <1>d DEF DocOf
  <2>2. \A s \in Server, e \in Doc :
          e # d \/ d \notin opened => mirror'[s][e] = mirror[s][e]
    BY <1>1, <1>c, <1>u, <1>v, <2>1, SendsType
  <2>3. r.job # "none" => \A s \in Server : Live(s) => r.out[s] = clients[s]
    BY <1>1, <1>s DEF Reached
  <2>4. QED
    BY <1>0, <1>1, <1>r, <1>t, <2>2, <2>3, UITells
<1>o. /\ Over(UI) \in ThreadType /\ Over(UI).pc = "idle"
      /\ Over(UI).job = "none" /\ Over(UI).queue = threads[UI].queue
  BY <1>r, <1>u, OverFields
<1>p. ASSUME NEW f \in [Server -> Int], Sends(UI, f), Moves(UI, Over(UI)),
             \A s \in Server : Live(s) /\ Has(s, d, mirror[s][d]) =>
                                 f[s] = version[d]
      PROVE  DocInv'
  <2> DEFINE r == Over(UI)
  <2>1. r \in ThreadType /\ r.pc = "idle" /\ r.job = "none"
        /\ r.queue = threads[UI].queue
    BY <1>o
  <2>2. Moves(UI, r)
    BY <1>p
  <2> HIDE DEF r
  <2>3. threads'[UI] = r
    BY <2>1, <2>2, <1>u, OneMoves DEF ProcessInv, LspStrongType
  <2>4. ASSUME NEW s \in Server, Live(s), Has(s, d, mirror[s][d])
        PROVE  Has(s, d, mirror[s][d])'
    <3>1. mirror'[s][d] = f[s]
      BY <1>d, <1>p, <1>s, <1>u, <1>v, <2>4, SendsType DEF DocOf
    <3>2. mirror'[s][d] = version'[d] /\ ~Telling(d)'
      BY <1>0, <1>p, <2>1, <2>3, <2>4, <3>1 DEF docs, Telling, JobOf
    <3>3. QED
      BY <3>2 DEF Has, Telling
  <2>5. ~IsClaim(r)
    BY <2>1 DEF IsClaim
  <2>6. QED
    BY <1>1, <1>p, <2>1, <2>2, <2>4, <2>5
<1>2. CASE TellChange(UI)
  <2>1. /\ Sends(UI, Changes(UI)) /\ Changes(UI) \in [Server -> Int]
        /\ Moves(UI, Over(UI)) /\ threads[UI].job = "change"
    BY <1>2, <1>d, <1>u, MessagesAreSent, MessagesType
       DEF DocOf, JobOf, TellChange
  <2>2. ASSUME NEW s \in Server, Has(s, d, mirror[s][d])
        PROVE  Changes(UI)[s] = version[d]
    <3>1. \/ mirror[s][d] = version[d] - 1
          \/ s \in FullSync /\ mirror[s][d] = version[d]
      BY <1>t, <2>1, <2>2 DEF Has, JobOf
    <3>2. mirror[s][d] # Closed /\ mirror[s][d] \in Int
      BY <1>c, <1>v, <2>1, <3>1 DEF Closed
    <3>3. DidChange(s, version[d], mirror[s][d]) = version[d]
      BY <1>v, <3>1, <3>2, DidChangeType
    <3>4. QED
      BY <1>d, <3>3 DEF Changes, DocOf
  <2>3. QED
    BY <1>p, <2>1, <2>2
<1>3. CASE TellReopened(UI)
  <2>1. /\ Sends(UI, Reopens(UI)) /\ Reopens(UI) \in [Server -> Int]
        /\ Moves(UI, Over(UI))
    BY <1>3, <1>d, <1>u, MessagesAreSent, MessagesType DEF DocOf, TellReopened
  <2>2. \A s \in Server : Live(s) => mirror[s][d] = Closed
    BY <1>3, <1>d, <1>s DEF TellReopened, Happens, DocOf
  <2>3. \A s \in Server : Live(s) => Reopens(UI)[s] = version[d]
    BY <1>d, <2>2 DEF Reopens, DidOpen, DocOf
  <2>4. QED
    BY <1>p, <2>1, <2>3
<1>4. CASE TellClosed(UI)
  <2> DEFINE r == [threads[UI] EXCEPT !.pc = "forget"]
  <2>1. /\ Sends(UI, Closes(UI)) /\ Closes(UI) \in [Server -> Int]
        /\ Moves(UI, r) /\ threads[UI].job = "close"
    BY <1>4, <1>d, <1>u, MessagesAreSent, MessagesType
       DEF DocOf, JobOf, TellClosed
  <2>2. /\ r \in ThreadType /\ r.pc = "forget" /\ r.job = "close" /\ r.doc = d
        /\ r.queue = threads[UI].queue /\ r.todo = threads[UI].todo
        /\ r.out = threads[UI].out
    BY <1>d, <1>r, <2>1 DEF ThreadType, PcNames
  <2> HIDE DEF r
  <2>3. threads'[UI] = r
    BY <2>1, <2>2, <1>u, OneMoves DEF ProcessInv, LspStrongType
  <2>4. ASSUME NEW s \in Server, Live(s), Has(s, d, mirror[s][d])
        PROVE  Has(s, d, mirror[s][d])'
    <3>1. mirror[s][d] = version[d]
      BY <1>n, <1>t, <2>1, <2>4 DEF Has, JobOf
    <3>2. DidClose(mirror[s][d]) = Closed
      BY <1>v, <3>1 DEF DidClose, Closed
    <3>3. Closes(UI)[s] = Closed
      BY <1>d, <3>2 DEF Closes, DocOf
    <3>4. mirror'[s][d] = Closed
      BY <1>d, <1>s, <1>u, <1>v, <2>1, <2>4, <3>3, SendsType DEF DocOf
    <3>5. QED
      BY <2>2, <2>3, <3>4 DEF Has, Telling, JobOf, DocOf, At
  <2>5. ~IsClaim(r)
    BY <2>2 DEF IsClaim
  <2>6. QED
    BY <1>1, <2>1, <2>2, <2>4, <2>5
<1>5. QED
  BY <1>2, <1>3, <1>4
\* A document is closed everywhere when the UI forgets it.
LEMMA ForgetsTheClosed ==
  ASSUME LspSyncAssumption, ProcessInv, ProcessInv', DocInv, NEW t \in Thread,
         Forget(t)
  PROVE  DocInv'
<1>u. t = UI /\ UI \in Thread /\ threads[UI].job = "close"
      /\ threads[UI] \in ThreadType /\ threads[UI].doc \in Doc
  BY ThreadsHaveTypes DEF Forget, At, JobOK
<1>d. PICK d \in Doc : threads[UI].doc = d
  BY <1>u
<1>0. /\ UNCHANGED <<version, pendingOpen, clients, running, mirror>>
      /\ opened' = opened \ {d} /\ listed' = listed \ {d}
      /\ Moves(UI, Over(UI)) /\ At(UI, "forget")
  BY <1>d, <1>u DEF Forget, table, DocOf
<1>t. Telling(d) /\ \A e \in Doc : Telling(e) => e = d
  BY <1>d, <1>u DEF Telling, DocOf, JobOf
<1>1. /\ threads'[UI] = Over(UI)
      /\ \A u \in Thread \ {UI} : threads'[u] = threads[u]
      /\ Over(UI).job = "none" /\ Over(UI).queue = threads[UI].queue
      /\ Over(UI).pc = "idle"
  BY <1>0, <1>u, OneMoves, OverFields DEF ProcessInv, LspStrongType
<1>2. DocInv
  OBVIOUS
<1>3. \A u \in Thread : ~Claims(u, d)
  BY <1>0, <1>2, <1>t DEF DocInv, NobodyOvertakes, Claims, At
<1>4. \A u \in Thread, e \in Doc :
        /\ Claims(u, e)' <=> Claims(u, e)
        /\ Claims(u, e) => threads'[u] = threads[u] /\ e # d /\ u # UI
  BY <1>0, <1>1, <1>3 DEF Claims, At, DocOf, JobOf
<1>5. \A s \in Server : Live(s)' <=> Live(s)
  BY <1>0 DEF Live
<1>6. \A u \in Thread, s \in Server, e \in Doc :
        /\ Opener(u, s, e)' <=> Opener(u, s, e)
        /\ Opener(u, s, e) => threads'[u] = threads[u] /\ e # d /\ u # UI
  BY <1>0, <1>4, <1>5 DEF Opener, Reached
<1>7. \A e \in Doc : ~Telling(e)'
  BY <1>1 DEF Telling, JobOf
<1>8. ListsFit'
  BY <1>0, <1>1, <1>2, <1>d, <1>u DEF DocInv, ListsFit, JobOf, DocOf
<1>9. OpenersAreAlone'
  <2>1. ASSUME NEW u \in Thread, NEW s \in Server, NEW e \in Doc,
               Opener(u, s, e)'
        PROVE  /\ e \in opened'
               /\ mirror'[s][e] = Closed
               /\ At(u, "opening")' => threads'[u].snap = version'[e]
               /\ \A v \in Thread : Opener(v, s, e)' => v = u
               /\ u = UI /\ JobOf(UI)' = "change" => s \in FullSync
    BY <1>0, <1>2, <1>6, <2>1 DEF DocInv, OpenersAreAlone, At
  <2>2. QED
    BY <2>1 DEF OpenersAreAlone
<1>10. NobodyOvertakes' /\ TellingIsOpen'
  BY <1>1, <1>7 DEF NobodyOvertakes, TellingIsOpen, At, JobOf
<1>11. AllAreFound'
  <2>1. \A e \in opened' : ~Telling(e)'
    BY <1>7 DEF ProcessInv, LspStrongType
  <2>2. QED
    BY <2>1 DEF AllAreFound
<1>12. NotOpenedIsClosed'
  <2>1. ASSUME NEW e \in Doc \ opened', NEW s \in Server
        PROVE  mirror[s][e] = Closed
    <3>1. CASE e \notin opened
      BY <1>2, <2>1, <3>1 DEF DocInv, NotOpenedIsClosed
    <3>2. CASE ~Live(s)
      BY <2>1, <3>2 DEF ProcessInv, OnlyTheLiveKnow, NoTexts
    <3>3. CASE e \in opened /\ Live(s)
      <4>1. e = d
        BY <1>0, <2>1, <3>3
      <4>2. Has(s, d, mirror[s][d])
        BY <1>2, <1>6, <3>3, <4>1 DEF DocInv, OpenedIsKnown
      <4>3. QED
        BY <1>0, <1>t, <1>u, <4>1, <4>2 DEF Has, JobOf
    <3>4. QED
      BY <3>1, <3>2, <3>3
  <2>2. QED
    BY <1>0, <2>1 DEF NotOpenedIsClosed
<1>13. OpenedIsKnown'
  <2>1. ASSUME NEW e \in opened', NEW s \in Server, Live(s)',
               \A u \in Thread : ~Opener(u, s, e)'
        PROVE  Has(s, e, mirror[s][e])'
    <3>1. e \in opened /\ e \in Doc /\ e # d
      BY <1>0, <2>1 DEF ProcessInv, LspStrongType
    <3>2. Has(s, e, mirror[s][e])
      BY <1>2, <1>5, <1>6, <2>1, <3>1 DEF DocInv, OpenedIsKnown
    <3>3. mirror[s][e] = version[e]
      BY <1>t, <3>1, <3>2 DEF Has
    <3>4. QED
      BY <1>0, <1>7, <3>1, <3>3 DEF Has, Telling
  <2>2. QED
    BY <2>1 DEF OpenedIsKnown
<1>14. QED
  BY <1>8, <1>9, <1>10, <1>11, <1>12, <1>13 DEF DocInv
\* A thread claims a document that no server has, and has looked up all servers.
LEMMA ClaimsAlone ==
  ASSUME LspSyncAssumption, ProcessInv, ProcessInv', DocInv, lapses' = {},
         NEW t \in Thread, ClaimOpen(t)
  PROVE  DocInv'
<1>u. UI \in Thread
  BY DEF Thread
<1>r. /\ threads[t] \in ThreadType /\ JobOK(t, threads[t])
      /\ threads[t].pc = "lookup" /\ threads[t].job \notin {"none", "workspace"}
      /\ threads[t].doc \in Doc
      /\ threads[t].job \notin {"open", "ask"} => t = UI
  BY ThreadsHaveTypes
     DEF ClaimOpen, LookedUp, At, JobOK, ThreadType, JobNames
<1>d. PICK d \in Doc : threads[t].doc = d
  BY <1>r
<1> DEFINE r == [threads[t] EXCEPT !.pc = "snapshot"]
<1>0. /\ UNCHANGED <<docs, pendingOpen, clients, running, mirror>>
      /\ opened' = opened \cup {d} /\ d \notin opened
      /\ Moves(t, r) /\ ClaimLapses(t, d) = {}
  BY <1>d DEF ClaimOpen, table, DocOf, Happens
<1>1. /\ r \in ThreadType /\ r.pc = "snapshot" /\ r.job = threads[t].job
      /\ r.doc = d /\ r.queue = threads[t].queue /\ r.todo = threads[t].todo
      /\ r.out = threads[t].out /\ r.there = threads[t].there
      /\ r.must = threads[t].must
  BY <1>d, <1>r DEF ThreadType, PcNames
<1> HIDE DEF r
<1>2. /\ threads'[t] = r
      /\ \A u \in Thread \ {t} : threads'[u] = threads[u]
  BY <1>0, <1>1, OneMoves DEF ProcessInv, LspStrongType
<1>3. /\ Telling(d) => t = UI
      /\ t = UI /\ JobOf(UI) = "change" =>
           \A s \in Server : threads[t].out[s] # 0 => s \in FullSync
      /\ d \notin listed => t \notin Worker /\ ~threads[t].there
      /\ \A s \in Server : clients[s] # 0 => clients[s] = threads[t].out[s]
  <2>1. \A l \in AnyLapse :
          ~ \/ /\ l = "changeOpens"
               /\ (IF DocOf(UI) = d THEN JobOf(UI) ELSE "none") = "change"
               /\ \/ \E s \in Server \ FullSync : threads[t].out[s] # 0
                  \/ t # UI
            \/ /\ l = "overtaken" /\ t # UI
               /\ (IF DocOf(UI) = d THEN JobOf(UI) ELSE "none")
                    \in {"close", "restart"}
            \/ /\ l = "lateRequest" /\ d \notin listed
               /\ (t \in Worker \/ threads[t].there)
            \/ /\ l = "untold"
               /\ \E s \in Server :
                    clients[s] # 0 /\ clients[s] # threads[t].out[s]
    BY <1>0 DEF ClaimLapses
  <2>2. {"changeOpens", "overtaken", "lateRequest", "untold"} \subseteq AnyLapse
    BY DEF AnyLapse
  <2>3. ~ /\ (IF DocOf(UI) = d THEN JobOf(UI) ELSE "none") = "change"
          /\ \/ \E s \in Server \ FullSync : threads[t].out[s] # 0
             \/ t # UI
    BY <2>1, <2>2
  <2>4. ~ /\ t # UI
          /\ (IF DocOf(UI) = d THEN JobOf(UI) ELSE "none")
               \in {"close", "restart"}
    BY <2>1, <2>2
  <2>5. ~(d \notin listed /\ (t \in Worker \/ threads[t].there))
    BY <2>1, <2>2
  <2>6. ~ \E s \in Server : clients[s] # 0 /\ clients[s] # threads[t].out[s]
    BY <2>1, <2>2
  <2>7. QED
    BY <1>d, <2>3, <2>4, <2>5, <2>6 DEF Telling, DocOf
<1>4. DocInv
  OBVIOUS
<1>5. \A s \in Server : /\ Live(s)' <=> Live(s)
                        /\ Live(s) => clients[s] # 0
                        /\ Live(s) => clients'[s] = r.out[s]
  BY <1>0, <1>1, <1>3, ProcessesHaveNumbers DEF Live
<1>6. \A u \in Thread, e \in Doc :
        /\ u # t => (Claims(u, e)' <=> Claims(u, e))
        /\ Claims(t, e)' <=> e = d
        /\ ~Claims(t, e)
  BY <1>1, <1>2, <1>r DEF Claims, DocOf, JobOf
<1>7. \A u \in Thread, s \in Server, e \in Doc :
        /\ Opener(u, s, e)' => \/ u # t /\ Opener(u, s, e)
                               \/ u = t /\ e = d
        /\ Opener(u, s, e) => u # t /\ Opener(u, s, e)'
        /\ u # t => threads'[u] = threads[u]
  BY <1>0, <1>2, <1>5, <1>6 DEF Opener, Reached
<1>8. \A s \in Server : Live(s) => Opener(t, s, d)'
  BY <1>2, <1>5, <1>6 DEF Opener, Reached
<1>9. \A u \in Thread, s \in Server : ~Opener(u, s, d)
  BY <1>0, <1>4 DEF DocInv, OpenersAreAlone
<1>10. /\ DocOf(UI)' = DocOf(UI) /\ JobOf(UI)' = JobOf(UI)
       /\ At(UI, "forget")' <=> At(UI, "forget")
       /\ threads'[UI].queue = threads[UI].queue
       /\ threads'[UI].must = threads[UI].must
       /\ threads'[UI].out = threads[UI].out
       /\ threads'[UI].todo = threads[UI].todo
       /\ \A e \in Doc : Telling(e)' <=> Telling(e)
  BY <1>1, <1>2, <1>d, <1>r, <1>u DEF DocOf, JobOf, At, Telling
<1>11. d \in listed
  BY <1>3, <1>4, <1>d, <1>r DEF DocInv, ListsFit, JobOf, DocOf, JobOK
<1>12. ListsFit'
  <2>1. \A u \in Thread : JobOf(u)' = JobOf(u)
                          /\ threads'[u].there = threads[u].there
    BY <1>1, <1>2 DEF JobOf
  <2>2. QED
    BY <1>0, <1>4, <1>10, <1>11, <2>1 DEF DocInv, ListsFit, docs
<1>13. OpenersAreAlone'
  <2>1. ASSUME NEW u \in Thread, NEW s \in Server, NEW e \in Doc,
               Opener(u, s, e)'
        PROVE  /\ e \in opened'
               /\ mirror'[s][e] = Closed
               /\ At(u, "opening")' => threads'[u].snap = version'[e]
               /\ \A v \in Thread : Opener(v, s, e)' => v = u
               /\ u = UI /\ JobOf(UI)' = "change" => s \in FullSync
    <3>1. CASE u = t /\ e = d
      <4>1. mirror'[s][d] = Closed
        BY <1>0, <1>4 DEF DocInv, NotOpenedIsClosed
      <4>2. \A v \in Thread : Opener(v, s, d)' => v = t
        BY <1>7, <1>9
      <4>3. s \in Reached(t)' /\ Live(s)
        BY <1>5, <2>1, <3>1 DEF Opener, Reached
      <4>4. t = UI /\ JobOf(UI)' = "change" => s \in FullSync
        BY <1>3, <1>5, <1>10, <4>3
      <4>5. ~At(t, "opening")'
        BY <1>1, <1>2 DEF At
      <4>6. QED
        BY <1>0, <3>1, <4>1, <4>2, <4>4, <4>5
    <3>2. CASE u # t
      <4>1. Opener(u, s, e) /\ threads'[u] = threads[u]
        BY <1>7, <2>1, <3>2
      <4>2. e # d
        BY <1>9, <4>1
      <4>3. \A v \in Thread : Opener(v, s, e)' => Opener(v, s, e)
        BY <1>7, <4>2
      <4>4. QED
        BY <1>0, <1>4, <1>10, <4>1, <4>3
           DEF DocInv, OpenersAreAlone, At, docs
    <3>3. QED
      BY <1>7, <2>1, <3>1, <3>2
  <2>2. QED
    BY <2>1 DEF OpenersAreAlone
<1>14. NobodyOvertakes'
  BY <1>3, <1>4, <1>6, <1>10 DEF DocInv, NobodyOvertakes
<1>15. AllAreFound'
  <2>1. ASSUME NEW e \in opened', NEW s \in Server, Telling(e)',
               threads'[UI].must = {}, Live(s)'
        PROVE  \/ threads'[UI].out[s] = clients'[s]
               \/ \E i \in DOMAIN threads'[UI].todo : threads'[UI].todo[i] = s
    <3>1. e \in Doc /\ Telling(e) /\ Live(s)
      BY <1>5, <1>10, <2>1 DEF ProcessInv, LspStrongType
    <3>2. CASE e = d
      BY <1>1, <1>2, <1>3, <1>5, <3>1, <3>2
    <3>3. CASE e \in opened
      BY <1>0, <1>4, <1>10, <2>1, <3>1, <3>3 DEF DocInv, AllAreFound
    <3>4. QED
      BY <1>0, <3>2, <3>3
  <2>2. QED
    BY <2>1 DEF AllAreFound
<1>16. TellingIsOpen'
  <2>1. CASE t = UI
    <3>1. r.job # "close"
      BY <1>0, <1>1, <1>4, <1>d, <1>r, <2>1
         DEF DocInv, TellingIsOpen, JobOf, DocOf, At
    <3>2. r.job = "change" => version'[d] >= 1
      BY <1>0, <1>1, <1>4, <1>d, <2>1
         DEF DocInv, TellingIsOpen, JobOf, DocOf, docs
    <3>3. QED
      BY <1>0, <1>1, <1>2, <2>1, <3>1, <3>2 DEF TellingIsOpen, JobOf, DocOf, At
  <2>2. CASE t # UI
    BY <1>0, <1>2, <1>4, <1>u, <2>2
       DEF DocInv, TellingIsOpen, JobOf, DocOf, At, docs
  <2>3. QED
    BY <2>1, <2>2
<1>17. NotOpenedIsClosed'
  BY <1>0, <1>4 DEF DocInv, NotOpenedIsClosed
<1>18. OpenedIsKnown'
  <2>1. ASSUME NEW e \in opened', NEW s \in Server, Live(s)',
               \A u \in Thread : ~Opener(u, s, e)'
        PROVE  Has(s, e, mirror[s][e])'
    <3>1. e \in opened /\ e \in Doc /\ e # d
      BY <1>0, <1>5, <1>8, <2>1 DEF ProcessInv, LspStrongType
    <3>2. Has(s, e, mirror[s][e])
      BY <1>4, <1>5, <1>7, <2>1, <3>1 DEF DocInv, OpenedIsKnown
    <3>3. QED
      BY <1>0, <1>10, <3>1, <3>2 DEF Has, docs
  <2>2. QED
    BY <2>1 DEF OpenedIsKnown
<1>19. QED
  BY <1>12, <1>13, <1>14, <1>15, <1>16, <1>17, <1>18 DEF DocInv
\* A thread reads the text that it is going to send.
LEMMA SnapshotIsCurrent ==
  ASSUME LspSyncAssumption, ProcessInv, ProcessInv', DocInv,
         NEW t \in Thread, Snapshot(t)
  PROVE  DocInv'
<1>u. UI \in Thread
  BY DEF Thread
<1>r. /\ threads[t] \in ThreadType /\ JobOK(t, threads[t])
      /\ threads[t].pc = "snapshot" /\ threads[t].job \notin {"none", "workspace"}
      /\ threads[t].doc \in Doc
  BY ThreadsHaveTypes DEF Snapshot, At, JobOK
<1>d. PICK d \in Doc : threads[t].doc = d
  BY <1>r
<1>v. PICK v \in Nat : version[d] = v
  BY DEF ProcessInv, LspStrongType
<1> DEFINE r == [threads[t] EXCEPT !.pc = "opening", !.snap = v]
<1>0. UNCHANGED <<docs, flags, clients, running, mirror>> /\ Moves(t, r)
  BY <1>d, <1>v DEF Snapshot, table, DocOf
<1>1. /\ r \in ThreadType /\ r.pc = "opening" /\ r.job = threads[t].job
      /\ r.doc = d /\ r.queue = threads[t].queue /\ r.todo = threads[t].todo
      /\ r.out = threads[t].out /\ r.there = threads[t].there
      /\ r.must = threads[t].must /\ r.snap = v
  BY <1>d, <1>r DEF ThreadType, PcNames
<1> HIDE DEF r
<1>2. /\ threads'[t] = r
      /\ \A u \in Thread \ {t} : threads'[u] = threads[u]
  BY <1>0, <1>1, OneMoves DEF ProcessInv, LspStrongType
<1>3. DocInv
  OBVIOUS
<1>4. \A u \in Thread : /\ JobOf(u)' = JobOf(u) /\ DocOf(u)' = DocOf(u)
                        /\ threads'[u].out = threads[u].out
                        /\ threads'[u].must = threads[u].must
                        /\ threads'[u].todo = threads[u].todo
                        /\ threads'[u].queue = threads[u].queue
                        /\ threads'[u].there = threads[u].there
                        /\ At(u, "forget")' <=> At(u, "forget")
                        /\ At(u, "tell")' <=> At(u, "tell")
                        /\ threads'[u].pc \in {"snapshot", "opening"}
                             <=> threads[u].pc \in {"snapshot", "opening"}
  BY <1>1, <1>2, <1>d, <1>r DEF JobOf, DocOf, At
<1>5. /\ \A u \in Thread, s \in Server, e \in Doc :
           Opener(u, s, e)' <=> Opener(u, s, e)
      /\ \A u \in Thread, e \in Doc : Claims(u, e)' <=> Claims(u, e)
      /\ \A e \in Doc : Telling(e)' <=> Telling(e)
      /\ \A s \in Server : Live(s)' <=> Live(s)
  BY <1>0, <1>4, <1>u DEF Opener, Claims, Reached, Live, Telling
<1>6. ListsFit'
  BY <1>0, <1>3, <1>4, <1>u DEF DocInv, ListsFit, docs, flags
<1>7. OpenersAreAlone'
  <2>1. ASSUME NEW u \in Thread, NEW s \in Server, NEW e \in Doc,
               Opener(u, s, e)'
        PROVE  /\ e \in opened'
               /\ mirror'[s][e] = Closed
               /\ At(u, "opening")' => threads'[u].snap = version'[e]
               /\ \A w \in Thread : Opener(w, s, e)' => w = u
               /\ u = UI /\ JobOf(UI)' = "change" => s \in FullSync
    <3>1. Opener(u, s, e)
      BY <1>5, <2>1
    <3>2. At(u, "opening")' => threads'[u].snap = version'[e]
      <4>1. CASE u = t
        BY <1>0, <1>1, <1>2, <1>d, <1>v, <3>1, <4>1
           DEF Opener, Claims, DocOf, docs
      <4>2. CASE u # t
        BY <1>0, <1>2, <1>3, <3>1, <4>2 DEF DocInv, OpenersAreAlone, At, docs
      <4>3. QED
        BY <4>1, <4>2
    <3>3. QED
      BY <1>0, <1>3, <1>4, <1>5, <1>u, <3>1, <3>2
         DEF DocInv, OpenersAreAlone, flags
  <2>2. QED
    BY <2>1 DEF OpenersAreAlone
<1>8. NobodyOvertakes' /\ NotOpenedIsClosed'
  BY <1>0, <1>3, <1>5 DEF DocInv, NobodyOvertakes, NotOpenedIsClosed, flags
<1>9. AllAreFound'
  <2>1. ASSUME NEW e \in opened', NEW s \in Server, Telling(e)',
               threads'[UI].must = {}, Live(s)'
        PROVE  \/ threads'[UI].out[s] = clients'[s]
               \/ \E i \in DOMAIN threads'[UI].todo : threads'[UI].todo[i] = s
    <3>1. e \in opened /\ e \in Doc
      BY <1>0, <2>1 DEF flags, ProcessInv, LspStrongType
    <3>2. QED
      BY <1>0, <1>3, <1>4, <1>5, <1>u, <2>1, <3>1 DEF DocInv, AllAreFound
  <2>2. QED
    BY <2>1 DEF AllAreFound
<1>10. TellingIsOpen'
  <2>1. JobOf(UI) = "close" /\ ~At(UI, "forget") => t # UI
    BY <1>3, <1>r DEF DocInv, TellingIsOpen
  <2>2. QED
    BY <1>0, <1>2, <1>3, <1>4, <1>u, <2>1
       DEF DocInv, TellingIsOpen, docs, flags
<1>11. OpenedIsKnown'
  <2>1. ASSUME NEW e \in opened', NEW s \in Server, Live(s)',
               \A u \in Thread : ~Opener(u, s, e)'
        PROVE  Has(s, e, mirror[s][e])'
    <3>1. e \in opened /\ e \in Doc
      BY <1>0, <2>1 DEF flags, ProcessInv, LspStrongType
    <3>2. Has(s, e, mirror[s][e])
      BY <1>3, <1>5, <2>1, <3>1 DEF DocInv, OpenedIsKnown
    <3>3. QED
      BY <1>0, <1>4, <1>5, <1>u, <3>1, <3>2 DEF Has, docs
  <2>2. QED
    BY <2>1 DEF OpenedIsKnown
<1>12. QED
  BY <1>6, <1>7, <1>8, <1>9, <1>10, <1>11 DEF DocInv

\* A thread sends its didOpen, which is the first the servers hear of it.
LEMMA OpensAlone ==
  ASSUME LspSyncAssumption, ProcessInv, ProcessInv', DocInv,
         NEW t \in Thread, SendOpen(t), threads[t].job # "workspace"
  PROVE  DocInv'
<1>u. UI \in Thread
  BY DEF Thread
<1>r. /\ threads[t] \in ThreadType /\ JobOK(t, threads[t])
      /\ threads[t].pc = "opening" /\ threads[t].job # "none"
      /\ threads[t].doc \in Doc
      /\ threads[t].job \in {"open", "ask"} \cup TellingJobs
      /\ threads[t].job \in TellingJobs => t = UI
  BY ThreadsHaveTypes
     DEF SendOpen, At, JobOK, ThreadType, JobNames, TellingJobs
<1>d. PICK d \in Doc : threads[t].doc = d
  BY <1>r
<1>0. UNCHANGED <<docs, flags, clients, running>> /\ Moves(t, AfterOpen(t))
  BY DEF SendOpen, table
<1>3. DocInv
  OBVIOUS
<1>1. PICK r \in ThreadType :
        /\ Moves(t, r) /\ ~IsClaim(r) /\ r.queue = threads[t].queue
        /\ \/ /\ threads[t].job = "open"
              /\ r.pc = "idle" /\ r.job = "none"
           \/ /\ threads[t].job # "open"
              /\ r.pc = IF threads[t].job = "ask" THEN "request" ELSE "tell"
              /\ r.job = threads[t].job /\ r.doc = d
              /\ r.out = threads[t].out /\ r.must = threads[t].must
              /\ r.todo = threads[t].todo
  <2>1. CASE threads[t].job = "open"
    <3>1. AfterOpen(t) = Over(t)
      BY <1>r, <2>1, AfterOpenFields DEF JobOf
    <3>2. QED
      BY <1>0, <1>r, <2>1, <3>1, OverFields DEF IsClaim
  <2>2. CASE threads[t].job = "ask"
    <3>1. AfterOpen(t) = [threads[t] EXCEPT !.pc = "request"]
      BY <1>r, <2>2, AfterOpenFields DEF JobOf
    <3>2. AfterOpen(t) \in ThreadType /\ AfterOpen(t).pc = "request"
      BY <1>r, <3>1 DEF ThreadType, PcNames
    <3>3. QED
      BY <1>0, <1>d, <1>r, <2>2, <3>1, <3>2 DEF IsClaim, ThreadType
  <2>3. CASE threads[t].job \in TellingJobs
    <3>1. AfterOpen(t) = [threads[t] EXCEPT !.pc = "tell"]
      BY <1>r, <2>3, AfterOpenFields DEF JobOf, TellingJobs
    <3>2. AfterOpen(t) \in ThreadType /\ AfterOpen(t).pc = "tell"
      BY <1>r, <3>1 DEF ThreadType, PcNames
    <3>3. QED
      BY <1>0, <1>d, <1>r, <2>3, <3>1, <3>2
         DEF IsClaim, ThreadType, TellingJobs
  <2>4. QED
    BY <1>r, <2>1, <2>2, <2>3
<1>2. /\ threads'[t] = r
      /\ \A u \in Thread \ {t} : threads'[u] = threads[u]
  BY <1>1, OneMoves DEF ProcessInv, LspStrongType
<1>c. Claims(t, d)
  BY <1>d, <1>r DEF Claims, At, DocOf, JobOf
<1>4. \A s \in Server : Live(s)' <=> Live(s)
  BY <1>0 DEF Live
<1>5. \A u \in Thread, e \in Doc :
        /\ Claims(u, e)' <=> u # t /\ Claims(u, e)
        /\ Claims(t, e) => e = d
  BY <1>1, <1>2, <1>d DEF Claims, IsClaim, DocOf, JobOf
<1>6. \A u \in Thread, s \in Server, e \in Doc :
        /\ Opener(u, s, e)' <=> u # t /\ Opener(u, s, e)
        /\ Opener(t, s, e) <=> e = d /\ s \in Reached(t)
        /\ u # t => threads'[u] = threads[u]
  BY <1>0, <1>2, <1>4, <1>5, <1>c DEF Opener, Reached
<1>7. \A s \in Server, e \in Doc :
        mirror'[s][e] = IF Opener(t, s, e) THEN version[d] ELSE mirror[s][e]
  <2>0. DocOf(t) = d /\ mirror \in [Server -> [Doc -> Int]]
    BY <1>d DEF DocOf, ProcessInv, LspStrongType
  <2>1. Sends(t, Opens(t)) /\ Opens(t) \in [Server -> Int]
    BY <2>0, MessagesAreSent, MessagesType
  <2>2. \A s \in Server, e \in Doc :
          mirror'[s][e] = IF s \in Reached(t) /\ e = d
                          THEN Opens(t)[s] ELSE mirror[s][e]
    <3>1. DocOf(t) \in Doc
      BY <2>0
    <3>2. \A s \in Server, e \in Doc :
            mirror'[s][e] = IF s \in Reached(t) /\ e = DocOf(t)
                            THEN Opens(t)[s] ELSE mirror[s][e]
      BY <2>0, <2>1, <3>1, SendsType
    <3>3. QED
      BY <2>0, <3>2
  <2>3. ASSUME NEW s \in Server, Opener(t, s, d)
        PROVE  Opens(t)[s] = version[d]
    <3>1. mirror[s][d] = Closed /\ threads[t].snap = version[d]
      BY <1>3, <1>r, <2>3 DEF DocInv, OpenersAreAlone, At
    <3>2. QED
      BY <2>0, <3>1 DEF Opens, DidOpen
  <2>4. QED
    BY <1>6, <2>2, <2>3
<1>8. \A e \in Doc : Telling(e)' => Telling(e) /\ JobOf(UI)' = JobOf(UI)
  BY <1>1, <1>2, <1>d, <1>r, <1>u DEF Telling, DocOf, JobOf, TellingJobs
<1>9. ListsFit'
  <2>1. CASE t = UI
    BY <1>0, <1>1, <1>2, <1>3, <1>d, <2>1
       DEF DocInv, ListsFit, JobOf, DocOf, docs, flags
  <2>2. CASE t # UI
    <3>1. \A u \in Thread \ {UI} :
            JobOf(u)' = "open" => threads'[u].there
      BY <1>1, <1>2, <1>3, <1>r, <2>2 DEF DocInv, ListsFit, JobOf
    <3>2. QED
      BY <1>0, <1>2, <1>3, <1>u, <2>2, <3>1
         DEF DocInv, ListsFit, JobOf, DocOf, docs, flags
  <2>3. QED
    BY <2>1, <2>2
<1>10. OpenersAreAlone'
  <2>1. ASSUME NEW u \in Thread, NEW s \in Server, NEW e \in Doc,
               Opener(u, s, e)'
        PROVE  /\ e \in opened'
               /\ mirror'[s][e] = Closed
               /\ At(u, "opening")' => threads'[u].snap = version'[e]
               /\ \A v \in Thread : Opener(v, s, e)' => v = u
               /\ u = UI /\ JobOf(UI)' = "change" => s \in FullSync
    <3>1. u # t /\ Opener(u, s, e) /\ threads'[u] = threads[u]
      BY <1>6, <2>1
    <3>2. ~Opener(t, s, e)
      BY <1>3, <3>1 DEF DocInv, OpenersAreAlone
    <3>3. QED
      BY <1>0, <1>3, <1>6, <1>7, <3>1, <3>2
         DEF DocInv, OpenersAreAlone, At, JobOf, docs, flags
  <2>2. QED
    BY <2>1 DEF OpenersAreAlone
<1>11. NobodyOvertakes'
  BY <1>3, <1>5, <1>8 DEF DocInv, NobodyOvertakes
<1>12. AllAreFound'
  <2>1. ASSUME NEW e \in opened', NEW s \in Server, Telling(e)',
               threads'[UI].must = {}, Live(s)'
        PROVE  \/ threads'[UI].out[s] = clients'[s]
               \/ \E i \in DOMAIN threads'[UI].todo : threads'[UI].todo[i] = s
    <3>1. e \in opened /\ e \in Doc
      BY <1>0, <2>1 DEF flags, ProcessInv, LspStrongType
    <3>2. Telling(e) /\ JobOf(UI)' # "none"
      BY <1>8, <2>1, <3>1 DEF Telling
    <3>3. /\ threads'[UI].out = threads[UI].out
          /\ threads'[UI].must = threads[UI].must
          /\ threads'[UI].todo = threads[UI].todo
      BY <1>1, <1>2, <1>u, <3>2 DEF JobOf
    <3>4. QED
      BY <1>0, <1>3, <1>4, <2>1, <3>1, <3>2, <3>3 DEF DocInv, AllAreFound
  <2>2. QED
    BY <2>1 DEF AllAreFound
<1>13. TellingIsOpen'
  <2>1. CASE t = UI
    <3>1. JobOf(UI) # "close" /\ d \in opened
      BY <1>3, <1>d, <1>r, <2>1 DEF DocInv, TellingIsOpen, At, DocOf
    <3>2. threads[UI].job = "change" => version[d] >= 1
      BY <1>3, <1>d, <2>1 DEF DocInv, TellingIsOpen, JobOf, DocOf
    <3>3. QED
      BY <1>0, <1>1, <1>2, <1>r, <2>1, <3>1, <3>2
         DEF TellingIsOpen, IsClaim, At, JobOf, DocOf, docs, flags, TellingJobs
  <2>2. CASE t # UI
    BY <1>0, <1>2, <1>3, <1>u, <2>2
       DEF DocInv, TellingIsOpen, At, JobOf, DocOf, docs, flags
  <2>3. QED
    BY <2>1, <2>2
<1>14. NotOpenedIsClosed'
  <2>1. \A s \in Server, e \in Doc \ opened : ~Opener(t, s, e)
    BY <1>3 DEF DocInv, OpenersAreAlone
  <2>2. QED
    BY <1>0, <1>3, <1>7, <2>1 DEF DocInv, NotOpenedIsClosed, flags
<1>15. OpenedIsKnown'
  <2>1. ASSUME NEW e \in opened', NEW s \in Server, Live(s)',
               \A u \in Thread : ~Opener(u, s, e)'
        PROVE  Has(s, e, mirror[s][e])'
    <3>1. e \in opened /\ e \in Doc
      BY <1>0, <2>1 DEF flags, ProcessInv, LspStrongType
    <3>2. CASE Opener(t, s, e)
      <4>1. e = d /\ mirror'[s][e] = version'[e]
        BY <1>0, <1>6, <1>7, <3>1, <3>2 DEF docs
      <4>2. Telling(e)' => t = UI /\ Telling(e)
        BY <1>3, <1>8, <1>c, <3>1, <4>1 DEF DocInv, NobodyOvertakes
      <4>3. Telling(e)' => JobOf(UI)' # "close"
        BY <1>3, <1>8, <1>r, <3>1, <4>2 DEF DocInv, TellingIsOpen, At
      <4>4. Telling(e)' /\ JobOf(UI)' = "change" => s \in FullSync
        BY <1>3, <1>8, <3>1, <3>2, <4>2 DEF DocInv, OpenersAreAlone
      <4>5. QED
        BY <4>1, <4>3, <4>4 DEF Has
    <3>3. CASE ~Opener(t, s, e)
      <4>1. Has(s, e, mirror[s][e]) /\ mirror'[s][e] = mirror[s][e]
        BY <1>3, <1>4, <1>6, <1>7, <2>1, <3>1, <3>3 DEF DocInv, OpenedIsKnown
      <4>2. CASE t # UI
        BY <1>0, <1>2, <1>u, <3>1, <4>1, <4>2
           DEF Has, Telling, At, JobOf, DocOf, docs
      <4>3. CASE t = UI /\ threads[t].job = "open"
        BY <1>0, <1>1, <1>2, <3>1, <4>1, <4>3
           DEF Has, Telling, JobOf, docs
      <4>4. CASE t = UI /\ threads[t].job # "open"
        <5>1. /\ JobOf(UI)' = JobOf(UI) /\ DocOf(UI)' = DocOf(UI)
              /\ threads'[UI].out = threads[UI].out
              /\ threads'[UI].must = threads[UI].must
              /\ ~At(UI, "forget") /\ ~At(UI, "forget")'
          BY <1>1, <1>2, <1>d, <1>r, <4>4 DEF JobOf, DocOf, At
        <5>2. QED
          BY <1>0, <3>1, <4>1, <5>1 DEF Has, Telling, docs
      <4>5. QED
        BY <4>2, <4>3, <4>4
    <3>4. QED
      BY <3>2, <3>3
  <2>2. QED
    BY <2>1 DEF OpenedIsKnown
<1>16. QED
  BY <1>9, <1>10, <1>11, <1>12, <1>13, <1>14, <1>15 DEF DocInv
\* A server comes up while no document is open but the one that is reopened.
LEMMA StartsUntold ==
  ASSUME LspSyncAssumption, ProcessInv, ProcessInv', DocInv, lapses' = {},
         NEW t \in Thread, ClientStarted(t)
  PROVE  DocInv'
<1>u. UI \in Thread
  BY DEF Thread
<1>r. /\ threads[t] \in ThreadType /\ JobOK(t, threads[t])
      /\ threads[t].pc = "starting" /\ threads[t].todo # << >>
      /\ threads[t].todo \in Seq(Server) /\ threads[t].job # "none"
  BY ThreadsHaveTypes DEF ClientStarted, At, JobOK, ThreadType
<1>s. PICK s \in Server : s = Wanted(t)
  BY <1>r DEF Wanted
<1>k. PICK k \in Nat : k = born[s] + 1
  BY ProcessesHaveNumbers
<1> DEFINE f == Found(t, k)
           r == [f EXCEPT !.pc = IF JobOf(t) = "workspace" THEN "opening"
                                 ELSE @]
<1>0. /\ clients' = [clients EXCEPT ![s] = k]
      /\ running' = running \cup {<<s, k>>}
      /\ mirror' = [mirror EXCEPT ![s] = NoTexts]
      /\ UNCHANGED <<docs, flags>>
      /\ Moves(t, r)
      /\ opened \subseteq IF JobOf(t) = "restart" THEN {DocOf(t)} ELSE {}
  BY <1>k, <1>s DEF ClientStarted, Happens
<1>1. /\ f \in ThreadType /\ f.pc = "lookup"
      /\ f.out = [threads[t].out EXCEPT ![s] = k]
      /\ f.job = threads[t].job /\ f.doc = threads[t].doc
      /\ f.must = threads[t].must /\ f.queue = threads[t].queue
      /\ f.there = threads[t].there /\ f.todo = Tail(threads[t].todo)
  BY <1>r, <1>s, FoundFields
<1> HIDE DEF f
<1>2. /\ r \in ThreadType
      /\ r.pc = IF threads[t].job = "workspace" THEN "opening" ELSE "lookup"
      /\ r.out = [threads[t].out EXCEPT ![s] = k]
      /\ r.job = threads[t].job /\ r.doc = threads[t].doc
      /\ r.must = threads[t].must /\ r.queue = threads[t].queue
      /\ r.there = threads[t].there /\ r.todo = Tail(threads[t].todo)
  BY <1>1 DEF ThreadType, PcNames, JobOf
<1> HIDE DEF r
<1>3. /\ threads'[t] = r
      /\ \A u \in Thread \ {t} : threads'[u] = threads[u]
  BY <1>0, <1>2, OneMoves DEF ProcessInv, LspStrongType
<1>4. ~IsClaim(r) /\ ~IsClaim(threads[t])
  BY <1>2, <1>r DEF IsClaim
<1>5. DocInv
  OBVIOUS
<1>6. \A x \in Server :
        /\ x = s => ~Live(x) /\ Live(x)' /\ clients'[x] = k
                    /\ mirror'[x] = NoTexts
        /\ x # s => (Live(x)' <=> Live(x)) /\ clients'[x] = clients[x]
                    /\ mirror'[x] = mirror[x]
        /\ r.out[x] = IF x = s THEN k ELSE threads[t].out[x]
  <2>1. /\ mirror \in [Server -> [Doc -> Int]]
        /\ clients \in [Server -> Nat] /\ threads[t].out \in [Server -> Nat]
    BY <1>r DEF ProcessInv, LspStrongType, ThreadType
  <2>2. clients[s] = 0
    BY <1>r, <1>s DEF ProcessInv, LockIsHeld, At
  <2>3. ~Live(s)
    BY <2>2, ProcessesHaveNumbers DEF Live
  <2>4. QED
    BY <1>0, <1>2, <2>1, <2>3 DEF Live
<1>7. \A u \in Thread, e \in Doc :
        /\ Claims(u, e)' <=> Claims(u, e)
        /\ Claims(u, e) => u # t /\ threads'[u] = threads[u]
  BY <1>3, <1>4 DEF Claims, IsClaim, DocOf, JobOf
<1>8. \A u \in Thread, x \in Server, e \in Doc :
        /\ Opener(u, x, e)' <=> Opener(u, x, e)
        /\ Opener(u, x, e) => x # s /\ threads'[u] = threads[u]
  <2>1. SUFFICES ASSUME NEW u \in Thread, NEW x \in Server, NEW e \in Doc,
                        Claims(u, e), threads'[u] = threads[u]
                 PROVE  /\ (x \in Reached(u))' <=> x \in Reached(u)
                        /\ x \in Reached(u) => x # s
    BY <1>7 DEF Opener
  <2>2. CASE x = s
    <3>1. threads[u].out[s] \in Nat /\ threads[u].out[s] <= born[s]
          /\ born[s] \in Nat
      BY ThreadsHaveTypes, ProcessesHaveNumbers
    <3>2. threads'[u].out[s] # k
      BY <1>k, <2>1, <3>1
    <3>3. QED
      BY <1>6, <2>2, <3>2 DEF Reached
  <2>3. CASE x # s
    BY <1>6, <2>1, <2>3 DEF Reached
  <2>4. QED
    BY <2>2, <2>3
<1>9. \A u \in Thread : /\ JobOf(u)' = JobOf(u) /\ DocOf(u)' = DocOf(u)
                        /\ threads'[u].must = threads[u].must
                        /\ threads'[u].queue = threads[u].queue
                        /\ threads'[u].there = threads[u].there
                        /\ At(u, "forget")' <=> At(u, "forget")
                        /\ At(u, "tell")' <=> At(u, "tell")
                        /\ \A x \in Server \ {s} :
                             threads'[u].out[x] = threads[u].out[x]
  BY <1>2, <1>3, <1>6, <1>r DEF JobOf, DocOf, At
<1>10. \A e \in Doc : Telling(e)' <=> Telling(e)
  BY <1>9, <1>u DEF Telling
<1>11. \A e \in opened :
         /\ t = UI /\ threads[UI].job = "restart" /\ threads[UI].doc = e
         /\ e \in Doc /\ Telling(e)
  BY <1>0, <1>r
     DEF JobOf, DocOf, JobOK, Telling, ProcessInv, LspStrongType
<1>12. ListsFit'
  BY <1>0, <1>5, <1>9, <1>u DEF DocInv, ListsFit, docs, flags
<1>13. OpenersAreAlone'
  <2>1. ASSUME NEW u \in Thread, NEW x \in Server, NEW e \in Doc,
               Opener(u, x, e)'
        PROVE  /\ e \in opened'
               /\ mirror'[x][e] = Closed
               /\ At(u, "opening")' => threads'[u].snap = version'[e]
               /\ \A v \in Thread : Opener(v, x, e)' => v = u
               /\ u = UI /\ JobOf(UI)' = "change" => x \in FullSync
    <3>1. Opener(u, x, e) /\ x # s /\ threads'[u] = threads[u]
      BY <1>8, <2>1
    <3>2. QED
      BY <1>0, <1>5, <1>6, <1>8, <3>1
         DEF DocInv, OpenersAreAlone, At, JobOf, docs, flags
  <2>2. QED
    BY <2>1 DEF OpenersAreAlone
<1>14. NobodyOvertakes'
  BY <1>5, <1>7, <1>10 DEF DocInv, NobodyOvertakes
<1>15. AllAreFound'
  <2>1. ASSUME NEW e \in opened', NEW x \in Server, Telling(e)',
               threads'[UI].must = {}, Live(x)'
        PROVE  \/ threads'[UI].out[x] = clients'[x]
               \/ \E i \in DOMAIN threads'[UI].todo : threads'[UI].todo[i] = x
    <3>1. e \in opened /\ t = UI /\ Telling(e)
      BY <1>0, <1>11, <2>1 DEF flags
    <3>2. CASE x = s
      BY <1>3, <1>6, <3>1, <3>2
    <3>3. CASE x # s /\ threads[UI].out[x] = clients[x]
      BY <1>6, <1>9, <1>u, <3>3
    <3>4. ASSUME x # s, NEW i \in DOMAIN threads[UI].todo,
                 threads[UI].todo[i] = x
          PROVE  \E j \in DOMAIN threads'[UI].todo : threads'[UI].todo[j] = x
      <4>1. threads'[UI].todo = Tail(threads[UI].todo)
            /\ threads[UI].todo \in Seq(Server) /\ threads[UI].todo # << >>
            /\ threads[UI].todo[i] # Head(threads[UI].todo)
        BY <1>2, <1>3, <1>r, <1>s, <3>1, <3>4 DEF Wanted
      <4>2. \E j \in DOMAIN Tail(threads[UI].todo) :
              Tail(threads[UI].todo)[j] = threads[UI].todo[i]
        BY <3>4, <4>1, TailHasTheRest
      <4>3. QED
        BY <3>4, <4>1, <4>2
    <3>5. CASE x # s
      <4>1. Live(x) /\ threads[UI].must = {}
        BY <1>6, <1>9, <1>u, <2>1, <3>5
      <4>2. QED
        BY <1>5, <3>1, <3>3, <3>4, <3>5, <4>1 DEF DocInv, AllAreFound
    <3>6. QED
      BY <3>2, <3>5
  <2>2. QED
    BY <2>1 DEF AllAreFound
<1>16. TellingIsOpen'
  <2>1. threads'[UI].pc \in {"snapshot", "opening"} =>
          threads'[UI] = threads[UI]
    <3>1. threads'[UI].job # "workspace"
      BY <1>u, ThreadsHaveTypes
         DEF ProcessInv, JobsFit, JobOK, LspSyncAssumption
    <3>2. QED
      BY <1>2, <1>3, <1>u, <3>1
  <2>2. JobOf(UI)' = "close" /\ ~At(UI, "forget")' =>
          threads'[UI].pc \in {"lookup", "starting", "tell"}
    BY <1>2, <1>3, <1>5, <1>9, <1>u DEF DocInv, TellingIsOpen, JobOf
  <2>3. QED
    BY <1>0, <1>5, <1>9, <1>u, <2>1, <2>2
       DEF DocInv, TellingIsOpen, docs, flags
<1>17. NotOpenedIsClosed'
  BY <1>0, <1>5, <1>6 DEF DocInv, NotOpenedIsClosed, NoTexts, flags
<1>18. OpenedIsKnown'
  <2>1. ASSUME NEW e \in opened', NEW x \in Server, Live(x)',
               \A u \in Thread : ~Opener(u, x, e)'
        PROVE  Has(x, e, mirror[x][e])'
    <3>1. /\ e \in opened /\ e \in Doc /\ t = UI /\ Telling(e)'
          /\ JobOf(UI)' = "restart"
      BY <1>0, <1>9, <1>10, <1>11, <2>1 DEF flags, JobOf
    <3>2. CASE x = s
      <4>1. mirror'[x][e] = Closed /\ threads'[UI].out[x] # 0
        BY <1>3, <1>6, <1>k, <3>1, <3>2, ProcessesHaveNumbers DEF NoTexts
      <4>2. QED
        BY <3>1, <4>1 DEF Has
    <3>3. CASE x # s
      <4>1. Has(x, e, mirror[x][e])
        BY <1>5, <1>6, <1>8, <2>1, <3>1, <3>3 DEF DocInv, OpenedIsKnown
      <4>2. QED
        BY <1>0, <1>6, <1>9, <1>10, <1>u, <3>1, <3>3, <4>1 DEF Has, docs
    <3>4. QED
      BY <3>2, <3>3
  <2>2. QED
    BY <2>1 DEF OpenedIsKnown
<1>19. QED
  BY <1>12, <1>13, <1>14, <1>15, <1>16, <1>17, <1>18 DEF DocInv
(***************************************************************************)
(* The invariant and what follows from it.                                 *)
(***************************************************************************)

LEMMA InitDocuments ==
  ASSUME LspSyncAssumption, ProcessInv, Init
  PROVE  DocInv
<1>u. UI \in Thread /\ UI # Startup
  BY DEF Thread, LspSyncAssumption
<1>1. /\ opened = {} /\ running = {} /\ pendingOpen \subseteq listed
      /\ mirror = [s \in Server |-> NoTexts] /\ threads[UI] = Idle
      /\ \A t \in Thread : threads[t].pc = "idle" /\ threads[t].job = "none"
  BY <1>u, IdleFields DEF Init, Idle
<1>2. ListsFit
  BY <1>1, <1>u, IdleFields DEF ListsFit, JobOf
<1>3. OpenersAreAlone /\ NobodyOvertakes
  BY <1>1 DEF OpenersAreAlone, NobodyOvertakes, Opener, Claims
<1>4. AllAreFound /\ OpenedIsKnown /\ TellingIsOpen
  BY <1>1, <1>u DEF AllAreFound, OpenedIsKnown, TellingIsOpen, At, JobOf
<1>5. NotOpenedIsClosed
  BY <1>1 DEF NotOpenedIsClosed, NoTexts
<1>6. QED
  BY <1>2, <1>3, <1>4, <1>5 DEF DocInv

\* What has gone wrong stays gone wrong.
LEMMA LapsesLast ==
  ASSUME [Next]_vars
  PROVE  lapses \subseteq lapses'
<1>1. CASE Next
  BY <1>1
     DEF Next, ServerNext, Step, OpenFile, Edit, Save, CloseDocument,
         StopLanguageServers, RestartLanguageServers, ReloadConfig,
         NextDocument, WorkspaceServers, Ask, FindClient, StartClient,
         ClientStarted, StartFailed, NobodyToTell, OpenedAlready, ClaimOpen,
         Snapshot, Restarted, SendOpen, TellChange, TellClosed, TellReopened,
         Forget, Request, ResetDocuments, CloseOldClients, Crash,
         OvertakesOpen, Happens
<1>2. CASE UNCHANGED vars
  BY <1>2 DEF vars
<1>3. QED
  BY <1>1, <1>2

LEMMA NextDocuments ==
  ASSUME LspSyncAssumption, ProcessInv, ProcessInv', DocInv, lapses' = {},
         [Next]_vars
  PROVE  DocInv'
<1>u. UI \in Thread /\ Startup \in Thread /\ Worker \subseteq Thread
  BY DEF Thread
<1>1. CASE OpenFile \/ Save
  BY <1>1, UserOpensAside
<1>2. CASE StopLanguageServers \/ Crash
  BY <1>2, ServersEndAside
<1>3. CASE Edit
  BY <1>3, EditBegins
<1>4. CASE CloseDocument
  BY <1>4, CloseBegins
<1>5. CASE RestartLanguageServers
  BY <1>5, RestartBegins
<1>6. CASE ReloadConfig
  BY <1>6, ReloadForgets
<1>7. CASE \E t \in {UI, Startup} : NextDocument(t)
  BY <1>7, <1>u, ThreadBeginsAside
<1>8. CASE WorkspaceServers
  BY <1>8, <1>u, ThreadBeginsAside
<1>9. CASE \E w \in Worker : Ask(w)
  BY <1>9, <1>u, ThreadBeginsAside
<1>10. ASSUME NEW t \in Thread, Step(t) \/ TellChange(t)
       PROVE  DocInv'
  <2>r. JobOK(t, threads[t])
    BY ThreadsHaveTypes
  <2>1. CASE \/ FindClient(t) \/ StartClient(t) \/ StartFailed(t)
             \/ NobodyToTell(t) \/ OpenedAlready(t)
    <3>1. CASE threads[t].job \in TellingJobs
      <4>1. t = UI
        BY <2>r, <3>1 DEF JobOK, TellingJobs
      <4>2. QED
        BY <2>1, <3>1, <4>1, LooksTelling
    <3>2. CASE threads[t].job \notin TellingJobs
      BY <2>1, <3>2, LooksAside
    <3>3. QED
      BY <3>1, <3>2
  <2>2. CASE Restarted(t)
    <3>1. t = UI /\ threads[t].job \in TellingJobs
      BY <2>2, <2>r DEF Restarted, JobOK, TellingJobs
    <3>2. QED
      BY <2>2, <3>1, LooksTelling
  <2>3. CASE TellChange(t) \/ TellClosed(t) \/ TellReopened(t)
    <3>1. t = UI
      BY <2>3, <2>r DEF TellChange, TellClosed, TellReopened, JobOK, JobOf
    <3>2. QED
      BY <2>3, <3>1, TellsAll
  <2>4. CASE ClientStarted(t)
    BY <2>4, StartsUntold
  <2>5. CASE ClaimOpen(t)
    BY <2>5, ClaimsAlone
  <2>6. CASE Snapshot(t)
    BY <2>6, SnapshotIsCurrent
  <2>7. CASE SendOpen(t) /\ threads[t].job # "workspace"
    BY <2>7, OpensAlone
  <2>8. CASE Forget(t)
    BY <2>8, ForgetsTheClosed
  <2>9. CASE \/ Request(t) \/ CloseOldClients(t)
             \/ SendOpen(t) /\ threads[t].job = "workspace"
    BY <2>9, ThreadEndsAside
  <2>10. CASE ResetDocuments(t)
    BY <2>10, ResetForgets
  <2>11. QED
    BY <1>10, <2>1, <2>2, <2>3, <2>4, <2>5, <2>6, <2>7, <2>8, <2>9, <2>10
       DEF Step
<1>11. CASE UNCHANGED vars
  <2>1. UNCHANGED <<clients, running, mirror, listed, version, opened,
                    pendingOpen, threads>>
    BY <1>11 DEF vars, docs, flags, table
  <2>2. UI \in Thread /\ threads[UI] \in ThreadType /\ Moves(UI, threads[UI])
    BY <2>1, SameThread
  <2>3. ServersLast
    BY <2>1, TableLasts
  <2>4. QED
    BY <2>1, <2>2, <2>3, AsideMove
<1>12. QED
  BY <1>1, <1>2, <1>3, <1>4, <1>5, <1>6, <1>7, <1>8, <1>9, <1>10, <1>11
     DEF Next, ServerNext

LspInv == ProcessInv /\ SyncInv

LEMMA LspIsInvariant ==
  ASSUME LspSyncAssumption
  PROVE  Spec => []LspInv
<1>1. Init => LspInv
  BY InitProcesses, InitDocuments DEF LspInv, SyncInv
<1>2. LspInv /\ [Next]_vars => LspInv'
  <2>1. SUFFICES ASSUME LspInv, [Next]_vars, lapses' = {}
                 PROVE  DocInv'
    BY NextProcesses DEF LspInv, SyncInv
  <2>2. ProcessInv' /\ lapses = {}
    BY <2>1, NextProcesses, LapsesLast DEF LspInv
  <2>3. QED
    BY <2>1, <2>2, NextDocuments DEF LspInv, SyncInv
<1>3. QED
  BY <1>1, <1>2, PTL DEF Spec

\* What a server has of a document while somebody is telling the servers of it
\* is one of the texts on the way, and when nobody is, the text or nothing.
LEMMA WhatServersHave ==
  ASSUME ProcessInv, DocInv, NEW s \in Server, NEW d \in Doc
  PROVE  /\ mirror[s][d] # Broken
         /\ Live(s) /\ Settled(d) =>
              mirror[s][d] = IF d \in opened THEN version[d] ELSE Closed
<1>v. version[d] \in Nat
  BY DEF ProcessInv, LspStrongType
<1>c. Closed # Broken /\ \A v \in Nat : v # Broken /\ v - 1 # Broken
  BY DEF Closed, Broken
<1>1. CASE d \notin opened
  BY <1>1, <1>c DEF DocInv, NotOpenedIsClosed
<1>2. CASE d \in opened /\ ~Live(s)
  BY <1>2, <1>c DEF ProcessInv, OnlyTheLiveKnow, NoTexts
<1>3. CASE d \in opened /\ Live(s) /\ \E t \in Thread : Opener(t, s, d)
  BY <1>3, <1>c DEF DocInv, OpenersAreAlone, Opener, Claims, Settled
<1>4. CASE d \in opened /\ Live(s) /\ \A t \in Thread : ~Opener(t, s, d)
  <2>1. Has(s, d, mirror[s][d])
    BY <1>4 DEF DocInv, OpenedIsKnown
  <2>2. mirror[s][d] \in {version[d], version[d] - 1, Closed}
    BY <2>1 DEF Has, Telling
  <2>3. Settled(d) => ~Telling(d)
    BY DEF Settled, Telling, Thread
  <2>4. QED
    BY <1>4, <1>c, <1>v, <2>1, <2>2, <2>3 DEF Has
<1>5. QED
  BY <1>1, <1>2, <1>3, <1>4

\* However the user, the startup goroutine, the goroutines with requests and
\* the ends of servers meet in clientsForDocument: every server process that
\* runs is the one of the table, or is about to be ended by ReloadConfig.
THEOREM NoProcessIsOrphaned ==
  ASSUME LspSyncAssumption
  PROVE  Spec => []NoOrphans
<1>1. ProcessInv => NoOrphans
  BY DEF ProcessInv
<1>2. QED
  BY <1>1, ProcessesAreInvariant, PTL

\* Without a lapse, a server that runs has the current text of every document
\* that is open and that nobody is just telling it of, and of no other, for any
\* number of servers, documents, goroutines, edits and starts (sync.go).
THEOREM ServersAlwaysFollow ==
  ASSUME LspSyncAssumption
  PROVE  Spec => []ServersFollow
<1>1. LspInv => ServersFollow
  BY WhatServersHave DEF LspInv, SyncInv, ServersFollow
<1>2. QED
  BY <1>1, LspIsInvariant, PTL

\* Without a lapse, no server is sent a change or a closing of what it was not
\* told of, a second didOpen, or a change of another text than it has.
THEOREM MessagesAlwaysAddUp ==
  ASSUME LspSyncAssumption
  PROVE  Spec => []MessagesAddUp
<1>1. LspInv => MessagesAddUp
  BY WhatServersHave DEF LspInv, SyncInv, MessagesAddUp
<1>2. QED
  BY <1>1, LspIsInvariant, PTL

\* Without a lapse, what is closed is not opened afterwards, neither by the
\* startup goroutine nor by a late request, and no server holds it open.
THEOREM NothingStaysOpen ==
  ASSUME LspSyncAssumption
  PROVE  Spec => []NothingLeftOpen
<1>1. LspInv => NothingLeftOpen
  <2>1. SUFFICES ASSUME LspInv, lapses = {}
                 PROVE  /\ opened \subseteq listed
                        /\ \A s \in Server, d \in Doc :
                             Live(s) /\ Settled(d) /\ d \notin listed =>
                               mirror[s][d] = Closed
    BY DEF NothingLeftOpen
  <2>2. ProcessInv /\ DocInv
    BY <2>1 DEF LspInv, SyncInv
  <2>3. opened \subseteq listed
    BY <2>2 DEF DocInv, ListsFit
  <2>4. QED
    BY <2>2, <2>3, WhatServersHave
<1>2. QED
  BY <1>1, LspIsInvariant, PTL


=============================================================================
