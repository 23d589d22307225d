-------------------------- MODULE MCViolationStore --------------------------
\* Two overlapping calls; slices of up to five violations and batches of two,
\* so that a slice can end on, before and after a batch boundary.
EXTENDS ViolationStore
=============================================================================
