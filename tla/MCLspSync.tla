----------------------------- MODULE MCLspSync ------------------------------
EXTENDS LspSync

CONSTANTS gopls, linter, d1, d2, w1

OneServer == <<gopls>>
TwoServers == <<gopls, linter>>

OneVisible == <<d1>>

\* Two documents and a goroutine that asks about them; the one server that
\* comes up is not started again, and one document is not edited.
TwoDocuments ==
  born[linter] = 0 /\ born[gopls] <= 1 /\ version[d1] <= 1 /\ version[d2] = 0

\* One document and the goroutine, with a server that is started twice.
TwoLives == d2 \in fresh /\ born[linter] = 0 /\ version[d1] <= 1

\* One document, edited twice, and two servers that are started twice.
BothServers == d2 \in fresh /\ \A w \in Worker : At(w, "idle")

\* Nothing is said of what comes after a lapse.
Explored == lapses = {} /\ (TwoDocuments \/ TwoLives \/ BothServers)

=============================================================================
