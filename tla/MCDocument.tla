----------------------------- MODULE MCDocument -----------------------------
EXTENDS Document

OpenedEmpty == {<< >>}
TwoOptions == {{"insertFinalNewline"},
               {"trimTrailingWhitespace", "trimFinalNewlines"}}
FinalNewline == {{"insertFinalNewline"}}

=============================================================================
