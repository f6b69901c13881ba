------------------------------ MODULE Completion ------------------------------
(* The popups an insert-mode user meets: completion lists and signature help, *)
(* layers of the compositor above the editor (term/ui), and the requests that *)
(* fill them (lsp/completion.go), which are answered on goroutines while the  *)
(* user types on.  One document, one view, one server, the caret at the end   *)
(* of the text.  A key is offered to the layers from the top down; callbacks  *)
(* run once every layer has seen it.                                          *)
EXTENDS Integers, SequencesExt, FiniteSetsExt

CONSTANTS
    Chars,        \* what can be typed; "(" and ")" delimit calls
    Triggers,     \* the characters that trigger a completion request
    Answers,      \* the lists of words a server may answer with
    TriggerLen,   \* completion.trigger-len
    MaxText,      \* bound: length of the text
    MaxEdits,     \* bound: edits of the document
    MaxGen        \* bound: keys and requests that reach the editor

\* Of what texts consist: words may have characters nobody types
Letters == Chars \cup UNION {UNION {Range(ws[i]) : i \in DOMAIN ws} : ws \in Answers}

ASSUME CompletionAssumption ==
    /\ Triggers \subseteq Chars
    /\ Answers \subseteq Seq(Seq(Letters))
    /\ {TriggerLen, MaxText, MaxEdits, MaxGen} \subseteq Nat

VARIABLES
    buffer,     \* the document: text, revision, and the mode of the editor
    layers,     \* the overlays, the topmost one last
    language,   \* generations of requests and timers, dismissed call (0: none)
    asked,      \* requests under way and their undelivered answers
    table,      \* candidates of the answer that came last, by index
    ticks,      \* timers under way, by generation
    picked      \* history: the item last accepted, and the one applied

popupVars == <<buffer, layers, language, asked, table, ticks, picked>>

NonWord == {"(", ")", "."}
Unpicked == [shown |-> <<>>, applied |-> <<>>]

CompletionInit ==
    /\ buffer = [text |-> <<>>, rev |-> 0, mode |-> "insert"]
    /\ layers = <<>>
    /\ language = [completionGen |-> 0, autoGen |-> 0, hidden |-> 0]
    /\ asked = {} /\ table = <<>> /\ ticks = {} /\ picked = Unpicked

-------------------------------------------------------------------------------
(* Text                                                                       *)

\* The position before the word that ends the text
WordStart(t) == Max({0} \cup {i \in DOMAIN t : t[i] \in NonWord})

WordPrefixReady(t) ==
    Len(t) >= TriggerLen /\ Len(t) - WordStart(t) >= TriggerLen

\* The innermost parenthesis open at the end of the text; 0: none, or the text
\* closes one that it never opened
CallOpen(t) ==
    LET depth(i, j) == Cardinality({k \in i..j : t[k] = "("})
                       - Cardinality({k \in i..j : t[k] = ")"})
        open == {i \in DOMAIN t : /\ t[i] = "("
                                  /\ \A j \in i..Len(t) : depth(i, j) > 0}
    IN  IF \E j \in DOMAIN t : depth(1, j) < 0 THEN 0 ELSE Max({0} \cup open)

\* The query occurs in the word in order, not necessarily side by side
Fuzzy(word, query) ==
    \E at \in [DOMAIN query -> DOMAIN word] :
        /\ \A i \in DOMAIN query : word[at[i]] = query[i]
        /\ \A i, j \in DOMAIN query : i < j => at[i] < at[j]

KeepPrefixed(query, kept, it) ==
    IF IsPrefix(query, it.word) THEN Append(kept, it) ELSE kept

KeepScattered(query, kept, it) ==
    IF ~IsPrefix(query, it.word) /\ Fuzzy(it.word, query)
    THEN Append(kept, it) ELSE kept

\* The candidates that match, those that start with the query first; further
\* scoring is left out
FilterItems(items, query) ==
    FoldLeft(LAMBDA kept, it : KeepPrefixed(query, kept, it), <<>>, items)
    \o FoldLeft(LAMBDA kept, it : KeepScattered(query, kept, it), <<>>, items)

-------------------------------------------------------------------------------
(* Layers                                                                     *)

IsList(l) == l.kind = "completion"
IsSignature(l) == l.kind = "signature"
ListsOn(ls) == {i \in DOMAIN ls : IsList(ls[i])}
TopList == Max({0} \cup ListsOn(layers))

Query(c, text) == SubSeq(text, c.anchor + 1, Len(text))
PopLayer(ls) == IF ls = <<>> THEN ls ELSE Front(ls)

\* An item is remembered by its id, its index in the answer it came with
RestoreCursor(c, items) ==
    LET same == {i \in DOMAIN items :
                    /\ c.cursor \in DOMAIN c.items
                    /\ items[i].id = c.items[c.cursor].id}
    IN  IF c.manual /\ same # {} THEN Min(same) ELSE 1

\* A request for the text of buf, which is not answered yet
Request(kind, layer, gen, anchor, buf) ==
    [kind |-> kind, layer |-> layer, gen |-> gen, anchor |-> anchor,
     rev |-> buf.rev, pos |-> Len(buf.text), phase |-> "asked",
     words |-> <<>>, incomplete |-> FALSE, failed |-> FALSE]

RefreshRequest(c, buf) ==
    IF ~c.incomplete THEN {}
    ELSE {Request("refresh", c.id, c.refreshGen + 1, c.anchor, buf)}

\* completionComponent.refresh, the callback of a character typed into the list
RefreshList(buf, st, i) ==
    LET c == st.layers[i]
        items == FilterItems(c.all, Query(c, buf.text))
        kept == [c EXCEPT !.items = items,
                          !.cursor = IF items = <<>> THEN @
                                     ELSE RestoreCursor(c, items),
                          !.refreshGen = IF c.incomplete THEN @ + 1 ELSE @]
    IN  IF items = <<>> /\ ~c.incomplete
        THEN [st EXCEPT !.layers = PopLayer(@)]
        ELSE [layers |-> ReplaceAt(st.layers, i, kept),
              asked |-> st.asked \cup RefreshRequest(c, buf)]

PushSignature(ls, call) ==
    LET layer == [kind |-> "signature", call |-> call]
        old == {i \in DOMAIN ls : IsSignature(ls[i])}
    IN  IF old = {} THEN Append(ls, layer) ELSE ReplaceAt(ls, Max(old), layer)

KeepOther(kept, l) == IF IsSignature(l) THEN kept ELSE Append(kept, l)

\* signatureHelpComponent.refresh: the answer is awaited, and may be empty
RefreshSignature(buf, help, st, i) ==
    LET call == st.layers[i].call
    IN  IF CallOpen(buf.text) = call /\ help
        THEN [st EXCEPT !.layers = PushSignature(@, call)]
        ELSE [st EXCEPT !.layers = FoldLeft(KeepOther, <<>>, @)]

\* The callback of the i-th of the layers ls that a character was typed into
Callback(ls, buf, help, st, i) ==
    IF IsList(ls[i]) THEN RefreshList(buf, st, i)
    ELSE RefreshSignature(buf, help, st, i)

\* Those of the layers that saw it, from the top down
Callbacks(ls, buf, help, from, requests) ==
    FoldLeft(LAMBDA st, i : Callback(ls, buf, help, st, i),
             [layers |-> ls, asked |-> requests],
             Reverse([k \in 1..(Len(ls) - from + 1) |-> from + k - 1]))

-------------------------------------------------------------------------------
(* Keys                                                                       *)

Edit(text) ==
    /\ Len(text) <= MaxText /\ buffer.rev < MaxEdits
    /\ buffer' = [buffer EXCEPT !.text = text, !.rev = @ + 1]

\* Any key that reaches the editor makes the requests before it out of date
KeyReachesEditor(n) ==
    /\ language.completionGen + n <= MaxGen
    /\ language' = [language EXCEPT !.completionGen = @ + n]

CompletionRequest(kind, gen, buf) ==
    Request(kind, 0, gen, WordStart(buf.text), buf)

\* A list consumes what is typed over it
TypeIntoList(ch) ==
    /\ buffer.mode = "insert" /\ TopList # 0
    /\ Edit(Append(buffer.text, ch))
    /\ \E help \in BOOLEAN :
          LET st == Callbacks(layers, buffer', help, TopList, asked)
          IN  layers' = st.layers /\ asked' = st.asked
    /\ UNCHANGED <<language, table, ticks, picked>>

\* insertTypable: a timer for automatic completion, then signature help if the
\* character triggers it (the answer is awaited), else a completion request: one
\* for a character that triggers nothing comes back empty and is left out
TypeIntoEditor(ch) ==
    LET text == Append(buffer.text, ch)
        call == CallOpen(text)
        auto == language.autoGen + 1
    IN  /\ buffer.mode = "insert" /\ TopList = 0
        /\ Edit(text)
        /\ language.completionGen + 2 <= MaxGen
        /\ ticks' = ticks \cup (IF WordPrefixReady(text) THEN {auto} ELSE {})
        /\ \E refreshed, help \in BOOLEAN :
              LET st == Callbacks(layers, buffer', refreshed, 1, asked)
                  hidden == call # 0 /\ language.hidden = call
                  shows == help /\ call # 0 /\ ~hidden /\ ch = "("
                  gen == language.completionGen + (IF shows THEN 1 ELSE 2)
              IN  /\ layers' = IF shows THEN PushSignature(st.layers, call)
                               ELSE st.layers
                  /\ asked' = IF shows \/ ch \notin Triggers THEN st.asked
                              ELSE st.asked \cup
                                   {CompletionRequest("typed", gen, buffer')}
                  /\ language' = [completionGen |-> gen, autoGen |-> auto,
                                  hidden |-> IF hidden THEN call ELSE 0]
        /\ UNCHANGED <<table, picked>>

\* A key no layer consumes removes every layer it passes
CompletionAction ==
    /\ buffer.mode = "insert"
    /\ KeyReachesEditor(2)
    /\ layers' = <<>>
    /\ asked' = asked \cup {CompletionRequest("invoked",
                  language.completionGen + 2, buffer)}
    /\ UNCHANGED <<buffer, table, ticks, picked>>

DeleteCharBackward ==
    /\ buffer.mode = "insert" /\ buffer.text # <<>>
    /\ Edit(Front(buffer.text))
    /\ KeyReachesEditor(1)
    /\ layers' = <<>>
    /\ UNCHANGED <<asked, table, ticks, picked>>

\* Escape is for the topmost layer, or leaves insert mode
Escape ==
    /\ buffer.mode = "insert"
    /\ IF layers = <<>>
       THEN /\ KeyReachesEditor(1)
            /\ buffer' = [buffer EXCEPT !.mode = "normal"]
       ELSE /\ IF IsSignature(Last(layers))
               THEN language' = [language EXCEPT !.hidden = Last(layers).call]
               ELSE UNCHANGED language
            /\ UNCHANGED buffer
    /\ layers' = PopLayer(layers)
    /\ UNCHANGED <<asked, table, ticks, picked>>

InsertMode ==
    /\ buffer.mode = "normal"
    /\ KeyReachesEditor(1)
    /\ buffer' = [buffer EXCEPT !.mode = "insert"]
    /\ UNCHANGED <<layers, asked, table, ticks, picked>>

SelectNext ==
    /\ TopList # 0 /\ TopList = Len(layers)
    /\ LET c == Last(layers)
           next == IF c.items = <<>> THEN c.cursor
                   ELSE (c.cursor % Len(c.items)) + 1
       IN  layers' = ReplaceAt(layers, Len(layers),
                               [c EXCEPT !.cursor = next, !.manual = TRUE])
    /\ UNCHANGED <<buffer, language, asked, table, ticks, picked>>

\* ApplyCompletion looks the accepted id up in the table, replaces the word at
\* the caret, and does nothing when the id is gone
Accept ==
    /\ TopList # 0 /\ TopList = Len(layers)
    /\ LET c == Last(layers)
           item == c.items[c.cursor]
           text == SubSeq(buffer.text, 1, WordStart(buffer.text))
       IN  IF c.cursor \in DOMAIN c.items /\ item.id \in DOMAIN table
           THEN /\ Edit(text \o table[item.id])
                /\ picked' = [shown |-> item.word, applied |-> table[item.id]]
           ELSE UNCHANGED <<buffer, picked>>
    /\ layers' = Front(layers)
    /\ UNCHANGED <<language, asked, table, ticks>>

-------------------------------------------------------------------------------
(* Answers and timers                                                         *)

\* Session.completions: the goroutine of a request stores the candidates it was
\* answered with, none if the request failed, then posts its message
Answer(r) ==
    /\ r \in asked /\ r.phase = "asked"
    /\ \E words \in Answers, incomplete, failed \in BOOLEAN :
          /\ failed => words = <<>> /\ ~incomplete
          /\ table' = words
          /\ asked' = (asked \ {r}) \cup
                {[r EXCEPT !.phase = "answered", !.words = words,
                           !.incomplete = incomplete, !.failed = failed]}
    /\ UNCHANGED <<buffer, layers, language, ticks, picked>>

Items(r) == [i \in DOMAIN r.words |-> [word |-> r.words[i], id |-> i]]

RequestValid(r) ==
    /\ r.gen = language.completionGen
    /\ buffer.mode = "insert" /\ buffer.rev = r.rev
    /\ Len(buffer.text) >= r.anchor

\* handleCompletionMsg
ShowCompletion(r) ==
    /\ r \in asked /\ r.phase = "answered" /\ r.kind # "refresh"
    /\ asked' = asked \ {r}
    /\ layers' = IF RequestValid(r) /\ r.words # <<>>
                 THEN Append(layers,
                        [kind |-> "completion", id |-> r.gen, all |-> Items(r),
                         items |-> Items(r), cursor |-> 1, manual |-> FALSE,
                         incomplete |-> r.incomplete, anchor |-> r.anchor,
                         rev |-> r.rev, refreshGen |-> 0])
                 ELSE layers
    /\ UNCHANGED <<buffer, language, table, ticks, picked>>

\* A refreshed answer is taken whatever was typed since it was asked for
RefreshValidAnyText(c, r) == buffer.mode = "insert" /\ Len(buffer.text) >= r.anchor

RefreshValid(c, r) ==
    /\ r.gen = c.refreshGen /\ buffer.mode = "insert"
    /\ buffer.rev = r.rev /\ Len(buffer.text) = r.pos

\* handleRefreshMsg: only the list that asked takes the answer
ShowRefresh(r) ==
    LET mine == {i \in ListsOn(layers) : layers[i].id = r.layer}
    IN  /\ r \in asked /\ r.phase = "answered" /\ r.kind = "refresh"
        /\ asked' = asked \ {r}
        /\ IF \E i \in mine : RefreshValid(layers[i], r)
           THEN LET i == Max(mine)
                    c == layers[i]
                    items == FilterItems(Items(r), Query(c, buffer.text))
                    told == [c EXCEPT !.rev = r.rev]
                    filled == [told EXCEPT !.all = Items(r), !.items = items,
                                           !.incomplete = r.incomplete,
                                           !.cursor = RestoreCursor(c, items)]
                IN  layers' = IF r.failed THEN ReplaceAt(layers, i, told)
                              ELSE IF items = <<>> THEN PopLayer(layers)
                              ELSE ReplaceAt(layers, i, filled)
           ELSE UNCHANGED layers
        /\ UNCHANGED <<buffer, language, table, ticks, picked>>

\* handleAutoCompletionMsg
AutoCompletion(t) ==
    LET gen == language.completionGen + 1
    IN  /\ t \in ticks
        /\ ticks' = ticks \ {t}
        /\ IF t = language.autoGen /\ buffer.mode = "insert"
           THEN /\ KeyReachesEditor(1)
                /\ asked' = asked \cup {CompletionRequest("invoked", gen, buffer)}
           ELSE UNCHANGED <<language, asked>>
        /\ UNCHANGED <<buffer, layers, table, picked>>

CompletionNext ==
    \/ \E ch \in Chars : TypeIntoList(ch) \/ TypeIntoEditor(ch)
    \/ CompletionAction \/ DeleteCharBackward \/ Escape \/ InsertMode
    \/ SelectNext \/ Accept
    \/ \E r \in asked : Answer(r) \/ ShowCompletion(r) \/ ShowRefresh(r)
    \/ \E t \in ticks : AutoCompletion(t)

CompletionSpec == CompletionInit /\ [][CompletionNext]_popupVars

-------------------------------------------------------------------------------
(* Properties                                                                 *)

\* The timer of automatic completion is not told of a completion asked for by
\* hand: its answer is then pushed over the list already shown, which no longer
\* sees what is typed.  The runs stop there (a CONSTRAINT).
NotStacked == Cardinality(ListsOn(layers)) <= 1

\* The shape of the state
PopupTypeOK ==
    /\ Len(buffer.text) <= MaxText /\ buffer.mode \in {"insert", "normal"}
    /\ \A i \in DOMAIN layers : IsList(layers[i]) \/ IsSignature(layers[i])
    /\ Cardinality({i \in DOMAIN layers : IsSignature(layers[i])}) <= 1
    /\ \A r \in asked : r.gen <= MaxGen /\ r.rev <= buffer.rev

\* However answers, timers and keys interleave, the list on top offers what the
\* server answered for the text as it is, or, once something was typed over it,
\* matches of what stands between its anchor and the caret, and only in insert
\* mode; and when the answer was incomplete and about an older text, the answer
\* for this text is on its way (completionRequestValid, refreshValid, refresh).
\* "rev" is the revision of the answer the list was last told of.
ListFollowsText ==
    layers # <<>> /\ IsList(Last(layers)) =>
        LET c == Last(layers)
        IN  /\ buffer.mode = "insert"
            /\ c.anchor <= Len(buffer.text)
            /\ \A i \in 1..c.anchor :
                   i = c.anchor => buffer.text[i] \in NonWord
            /\ \/ c.rev = buffer.rev
               \/ \A i \in DOMAIN c.items :
                      Fuzzy(c.items[i].word, Query(c, buffer.text))
            /\ c.items = <<>> => c.incomplete
            /\ c.incomplete /\ c.rev # buffer.rev =>
                   \E r \in asked : /\ r.kind = "refresh" /\ r.layer = c.id
                                    /\ r.gen = c.refreshGen
                                    /\ r.rev = buffer.rev

\* Accepting an item of the list applies that item ("ApplyCompletion applies the
\* selected completion item to the document", lsp/completion.go)
AcceptedIsSelected == picked.shown = picked.applied

=============================================================================
