------------------------------ MODULE PipeInput_mc -----------------------------
\* Blocks of two packages, and sources of up to five packages and some bytes.
EXTENDS PipeInput
================================================================================
