--------------------------- MODULE MCModelGateway ---------------------------
(* Instances of ModelGateway for TLC.                                      *)
EXTENDS ModelGateway

\* A model of each family, a local one with the name of a family, a name of none.
OneOfEach ==
  {<<"claude-", "opus-4", "-1">>, <<"gpt-", "4o", "-mini">>, <<"gemini-", "1.5-flash">>,
   <<"ollama/", "gpt-", "oss">>, <<"mistral">>}
\* One of each family, a local one without its prefix, and a prefix that is another's.
Chosen ==
  {<<"claude-", "opus-4">>, <<"gpt-", "4o", "-mini">>, <<"gemini-", "2.5-pro">>,
   <<"gpt-", "oss">>, <<"ollama/", "gpt-", "4o">>}
=============================================================================
