----------------------------- MODULE MCAttachTimed -----------------------------
\* Two addresses for the Deck, as model values.
EXTENDS AttachTimed

CONSTANTS h1, h2
===============================================================================
