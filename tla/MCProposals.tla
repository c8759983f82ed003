---------------------------- MODULE MCProposals ----------------------------
EXTENDS Proposals
\* two differences; for the first the server has two suggestions
MCItems ==
    LET P(prompt) == [prompt |-> prompt, size |-> 1, safe |-> TRUE, input |-> "none"]
    IN <<<<P("rename"), P("drop")>>, <<P("create")>>>>
=============================================================================
