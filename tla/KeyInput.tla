------------------------------- MODULE KeyInput -------------------------------
(* The dispatch of keys (term/ui/editor-keys.go): counts, sequences of keys,  *)
(* commands that read further characters (continuations), and their undoing   *)
(* by Backspace and Escape; and the replay of a recorded macro                *)
(* (editor-macro.go), a second interpreter of the same keys.  The model       *)
(* starts where a recording starts.                                           *)
EXTENDS Integers, SequencesExt, FiniteSetsExt

CONSTANTS
    Bindings,   \* records of a mode, the keys, the name of the command, whether
                \* it takes a count, how many characters it reads and the mode
                \* it leaves the editor in
    Keys,       \* the keys of the keyboard, digits and specials included
    MaxKeys     \* bound: keys typed

Digits == {"0", "1", "2"}
Specials == {"esc", "bksp"}
NumberOf == [k \in Digits |-> CASE k = "0" -> 0 [] k = "1" -> 1 [] k = "2" -> 2]

ASSUME KeyAssumption ==
    /\ MaxKeys \in Nat
    /\ \A b \in Bindings : /\ b.keys \in Seq(Keys) /\ b.keys # <<>>
                           /\ b.counted \in BOOLEAN /\ b.reads \in Nat

VARIABLES
    mode,       \* the mode of the editor
    keys,       \* what is pending: path, kinds of input, count, continuation
    typed,      \* the keys of the recorded macro
    log,        \* history: the commands run, with their characters and counts
    stumbled    \* history: a slip was typed that the replay is known to miss

keyVars == <<mode, keys, typed, log, stumbled>>

Idle == [path |-> <<>>, input |-> <<>>, count |-> 0,
         continuation |-> <<>>, frames |-> <<>>]

KeyInit ==
    /\ mode = "normal" /\ keys = Idle
    /\ typed = <<>> /\ log = <<>> /\ stumbled = FALSE

-------------------------------------------------------------------------------
(* The trie of bindings                                                       *)

Below(m, seq) == {b \in Bindings : b.mode = m /\ IsPrefix(seq, b.keys)}
Bound(m, seq) == {b \in Below(m, seq) : b.keys = seq}
Lookup(m, seq) == CHOOSE b \in Bound(m, seq) : TRUE
IsKeyPrefix(m, seq) == Bound(m, seq) = {} /\ Below(m, seq) # {}
AcceptsCount(m, seq) == \E b \in Below(m, seq) : b.counted
Typable(k) == k \notin Specials

\* A digit that extends the count; a leading zero is a key like any other
IsCount(m, seq, k, count) ==
    /\ m = "normal" /\ k \in Digits /\ AcceptsCount(m, seq)
    /\ k # "0" \/ count > 0

\* A continuation waits for further characters of a command
Waiting(b, args) == <<[cmd |-> b, args |-> args]>>
Entry(name, args, count) == [name |-> name, args |-> args, count |-> count]

\* ReadChar and PopOnBackspace: what a key means to a continuation
Transition(cont, k) ==
    IF k = "bksp" THEN "pop"
    ELSE IF k \in Specials THEN "stay"
    ELSE IF Len(cont[1].args) + 1 < cont[1].cmd.reads THEN "push" ELSE "done"

Extended(cont, k) == Waiting(cont[1].cmd, Append(cont[1].args, k))

-------------------------------------------------------------------------------
(* Typing                                                                     *)

Type(k) == Len(typed) < MaxKeys /\ typed' = Append(typed, k)
Stumble(slip) == stumbled' = (stumbled \/ slip)

\* The keys that a replay skips wherever they stand, for the prompts they open
ReplaySkip(k, m) == m = "normal" /\ k = "s"

\* Escape drops whatever is pending
CancelPending ==
    /\ Type("esc") /\ keys.input # <<>>
    /\ keys' = Idle
    /\ Stumble(TRUE)
    /\ UNCHANGED <<mode, log>>

\* popPending: the last digit or the last key of the path
Popped(ks) ==
    IF Last(ks.input) = "digit"
    THEN [ks EXCEPT !.input = Front(@), !.count = @ \div 10]
    ELSE [ks EXCEPT !.input = Front(@), !.path = Front(@)]

\* Popping that forgets the character read
PoppedContinuationOnly ==
    IF keys.frames = <<>> THEN Popped([keys EXCEPT !.continuation = <<>>])
    ELSE [keys EXCEPT !.continuation = Last(keys.frames),
                      !.frames = Front(keys.frames)]

\* A continuation popped past its first character is a pending sequence again
PoppedContinuation ==
    IF keys.frames = <<>> THEN Popped([keys EXCEPT !.continuation = <<>>])
    ELSE [Popped(keys) EXCEPT !.continuation = Last(keys.frames),
                              !.frames = Front(keys.frames)]

HandleContinuation(k) ==
    LET cont == keys.continuation
        step == Transition(cont, k)
    IN  /\ cont # <<>> /\ k # "esc"
        /\ Type(k)
        /\ keys' = CASE step = "pop" -> PoppedContinuation
                     [] step = "stay" -> keys
                     [] step = "push" ->
                          [keys EXCEPT !.frames = Append(@, cont),
                                       !.input = Append(@, "key"),
                                       !.path = Append(@, k),
                                       !.continuation = Extended(cont, k)]
                     [] step = "done" -> Idle
        /\ log' = IF step # "done" THEN log
                  ELSE Append(log, Entry(cont[1].cmd.name,
                                         Append(cont[1].args, k), keys.count))
        /\ mode' = IF step = "done" THEN cont[1].cmd.enters ELSE mode
        /\ UNCHANGED stumbled

CountDigit(k) ==
    /\ Type(k) /\ keys.continuation = <<>>
    /\ IsCount(mode, keys.path, k, keys.count)
    /\ keys' = [keys EXCEPT !.input = Append(@, "digit"),
                            !.count = @ * 10 + NumberOf[k]]
    /\ UNCHANGED <<mode, log, stumbled>>

PopPending ==
    /\ Type("bksp") /\ keys.continuation = <<>> /\ keys.input # <<>>
    /\ keys' = Popped(keys)
    /\ Stumble(TRUE)
    /\ UNCHANGED <<mode, log>>

\* A key that is neither of those above joins the path
Joins(k) ==
    /\ Type(k) /\ keys.continuation = <<>>
    /\ ~IsCount(mode, keys.path, k, keys.count)
    /\ k \in Specials => keys.input = <<>>

RunCommand(k) ==
    LET path == Append(keys.path, k)
        b == Lookup(mode, path)
    IN  /\ Joins(k) /\ Bound(mode, path) # {}
        /\ IF b.reads = 0
           THEN /\ keys' = Idle
                /\ log' = Append(log, Entry(b.name, <<>>, keys.count))
                /\ mode' = b.enters
           ELSE /\ keys' = [path |-> path, input |-> Append(keys.input, "key"),
                            count |-> keys.count, frames |-> <<>>,
                            continuation |-> Waiting(b, <<>>)]
                /\ UNCHANGED <<log, mode>>
        /\ Stumble(ReplaySkip(k, mode))

Inserts(k) == mode = "insert" /\ keys.path = <<>> /\ Typable(k)

AwaitMoreKeys(k) ==
    /\ Joins(k) /\ IsKeyPrefix(mode, Append(keys.path, k)) /\ ~Inserts(k)
    /\ keys' = [keys EXCEPT !.path = Append(@, k), !.input = Append(@, "key")]
    /\ Stumble(ReplaySkip(k, mode))
    /\ UNCHANGED <<mode, log>>

InsertTypable(k) ==
    /\ Joins(k) /\ Bound(mode, Append(keys.path, k)) = {} /\ Inserts(k)
    /\ keys' = Idle
    /\ log' = Append(log, Entry("insert", <<k>>, 0))
    /\ UNCHANGED <<mode, stumbled>>

\* An unbound key is forgotten, not what was pending before it
UnboundKey(k) ==
    /\ Joins(k) /\ Below(mode, Append(keys.path, k)) = {} /\ ~Inserts(k)
    /\ Stumble(keys.input # <<>> \/ ReplaySkip(k, mode))
    /\ UNCHANGED <<mode, keys, log>>

\* A click drops what is pending, and is no key of the macro
MouseClick ==
    /\ keys.input # <<>>
    /\ keys' = Idle /\ Stumble(TRUE)
    /\ UNCHANGED <<mode, typed, log>>

KeyNext ==
    \/ CancelPending \/ PopPending \/ MouseClick
    \/ \E k \in Keys : \/ HandleContinuation(k) \/ CountDigit(k)
                       \/ RunCommand(k) \/ AwaitMoreKeys(k)
                       \/ InsertTypable(k) \/ UnboundKey(k)

KeySpec == KeyInit /\ [][KeyNext]_keyVars

-------------------------------------------------------------------------------
(* Replaying                                                                  *)

ReplayStart ==
    [mode |-> "normal", pending |-> <<>>, seq |-> <<>>, count |-> 0,
     continuation |-> <<>>, frames |-> <<>>, log |-> <<>>]

\* Settling that leaves the count to the next command
SettledKeepsCount(r) == [r EXCEPT !.pending = <<>>, !.continuation = <<>>,
                                  !.frames = <<>>, !.seq = <<>>]

\* A command has run, or what was pending is dropped
Settled(r) == [r EXCEPT !.pending = <<>>, !.count = 0, !.continuation = <<>>,
                        !.frames = <<>>, !.seq = <<>>]

\* The continuation of a command takes the keys until it is done or popped
ReplayContinuation(r, k) ==
    LET cont == r.continuation
        step == Transition(cont, k)
    IN  CASE step = "stay" -> r
          [] step = "push" ->
               [r EXCEPT !.frames = Append(@, cont), !.seq = Append(@, k),
                         !.continuation = Extended(cont, k)]
          [] step = "pop" /\ r.frames # <<>> ->
               [r EXCEPT !.continuation = Last(r.frames),
                         !.frames = Front(@), !.seq = Front(@)]
          [] step = "pop" /\ r.frames = <<>> ->
               [r EXCEPT !.continuation = <<>>, !.pending = Front(r.seq),
                         !.seq = <<>>]
          [] step = "done" ->
               [Settled(r) EXCEPT
                    !.mode = cont[1].cmd.enters,
                    !.log = Append(r.log, Entry(cont[1].cmd.name,
                                      Append(cont[1].args, k), r.count))]

\* The body of replayMacro for one key
ReplayKey(r, k) ==
    LET pending == Append(r.pending, k)
        b == Lookup(r.mode, pending)
        inserts == r.mode = "insert" /\ r.pending = <<>> /\ Typable(k)
        inserted == [Settled(r) EXCEPT
                        !.log = Append(@, Entry("insert", <<k>>, 0))]
    IN  IF r.continuation # <<>> THEN ReplayContinuation(r, k)
        ELSE IF ReplaySkip(k, r.mode) THEN [r EXCEPT !.pending = <<>>]
        ELSE IF IsCount(r.mode, r.pending, k, r.count)
             THEN [r EXCEPT !.count = @ * 10 + NumberOf[k]]
        ELSE IF Bound(r.mode, pending) = {}
             THEN IF inserts THEN inserted
                  ELSE IF IsKeyPrefix(r.mode, pending)
                       THEN [r EXCEPT !.pending = pending]
                       ELSE Settled(r)
        ELSE IF b.reads > 0
             THEN [r EXCEPT !.pending = <<>>, !.seq = pending,
                            !.continuation = Waiting(b, <<>>)]
        ELSE [Settled(r) EXCEPT !.mode = b.enters,
                  !.log = Append(@, Entry(b.name, <<>>, r.count))]

Replay(macro) == FoldLeft(ReplayKey, ReplayStart, macro)

-------------------------------------------------------------------------------
(* Properties                                                                 *)

\* Ten to the number of the digits
TimesTen(n, input) == IF input = "digit" THEN 10 * n ELSE n

\* Whatever was typed, undone and cancelled, what is pending adds up: Backspace
\* has exactly the digits of the count and the keys of the path to take back,
\* one character read per frame, and nothing pending means a clean slate
\* (setCount, popPending, pushContinuation, popContinuation, cancelPending)
PendingIsWhole ==
    LET digits == Cardinality({i \in DOMAIN keys.input :
                                   keys.input[i] = "digit"})
        scale == FoldLeft(TimesTen, 1, keys.input)
    IN  /\ Len(keys.input) = digits + Len(keys.path)
        /\ keys.count < scale
        /\ digits > 0 => keys.count * 10 >= scale
        /\ IF keys.continuation = <<>> THEN keys.frames = <<>>
           ELSE /\ Len(keys.frames) = Len(keys.continuation[1].args)
                /\ IsSuffix(keys.continuation[1].args, keys.path)
        /\ keys.path # <<>> /\ keys.continuation = <<>> =>
               IsKeyPrefix(mode, keys.path)

\* A recorded macro replays to the commands that were typed, with their counts,
\* unless the typing held a slip: pending keys taken back or cancelled, a key
\* that is not bound, or a key that replaySkip skips (replayMacro)
CleanMacroReplays ==
    keys = Idle /\ ~stumbled => /\ Replay(typed).log = log
                                /\ Replay(typed).mode = mode

===============================================================================
