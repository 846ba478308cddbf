---------------------------- MODULE MCLspServer ----------------------------
(* LspServer on small instances: the text "bad" makes the analyser raise.  *)
EXTENDS LspServer

MCAnalysable == {<<u, c>> \in Uris \X Contents : c # "bad"}
=============================================================================
