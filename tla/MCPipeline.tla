----------------------------- MODULE MCPipeline -----------------------------
\* Two concurrent Runs, one of up to two sources and one of up to one.  A
\* check finds up to two violations, so that a save can fail with one on disk.
EXTENDS PipelineLog

OneIsShort == \E r \in Run : sources[r] <= 1
=============================================================================
