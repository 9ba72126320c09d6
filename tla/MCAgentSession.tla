--------------------------- MODULE MCAgentSession ---------------------------
EXTENDS AgentSession

\* The second message carries files.
SecondHasFiles == {2}
=============================================================================
