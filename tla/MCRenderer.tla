----------------------------- MODULE MCRenderer -----------------------------
\* A small instance of Renderer: a job writes one command for each frame it
\* decodes.
EXTENDS Renderer

CONSTANTS MainCommands, JobCommands

Commands == [s \in Streams |-> IF s = Default THEN MainCommands ELSE JobCommands]
=============================================================================
