----------------------------- MODULE MCLearning -----------------------------
\* Small sessions of the chat, the hub and the two trainers it feeds.
EXTENDS Learning

CONSTANTS ask1, ask2

MCPrompts == {ask1, ask2}
\* The same question twice, so that it can have two answers.
MCPromptOf == [i \in 1..MaxAsks |-> IF i = 2 THEN ask2 ELSE ask1]
=============================================================================
