-------------------------- MODULE MCInboundRefresh --------------------------
EXTENDS InboundRefresh

CONSTANTS e1, e2, e3, b1

\* A file is created, another one with the same content, and the first of them
\* is renamed.
CreateCopyRename ==
  [e \in {e1, e2, e3} |->
     CASE e = e1 -> <<b1>>
       [] e = e2 -> <<e1, b1>>
       [] e = e3 -> <<e2, e1, b1>>]
=============================================================================
