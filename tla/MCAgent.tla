------------------------------ MODULE MCAgent ------------------------------
\* One tool with two pages to fetch: enough for the plan and the model to ask for
\* either, and for an approval of one to be mistaken for the other's.
EXTENDS Agent

CONSTANTS page1, page2

Pages     == {page1, page2}
WebTool   == {"web_fetch"}
WebRisk   == {"network"}
PageKey   == [c \in Pages |-> c]
PageTool  == [c \in Pages |-> "web_fetch"]
ToolRisk  == [t \in WebTool |-> "network"]
=============================================================================
