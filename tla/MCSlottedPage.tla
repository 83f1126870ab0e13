--------------------------- MODULE MCSlottedPage ---------------------------
(* Instances of SlottedPage: a few keys, sizes that fill a page quickly. *)
EXTENDS SlottedPage

\* The contents alone: one layout is enough for each.
MCContents == <<kv, status>>

=============================================================================
