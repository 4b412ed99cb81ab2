----------------------------- MODULE PipeOutput_mc -----------------------------
\* Two producers that send two blocks each.
EXTENDS PipeOutput
================================================================================
