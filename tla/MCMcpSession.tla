---------------------------- MODULE MCMcpSession ----------------------------
(***************************************************************************)
(* What the server may list: nothing; the configured event, deliverable or *)
(* not; others before it or in its place; a definition without a name.     *)
(***************************************************************************)
EXTENDS McpSession

CONSTANTS n1, n2, n3

Definition(event, webhook) == [name |-> event, webhook |-> webhook]

MCOffers ==
    {<<>>, <<Definition(None, TRUE)>>, <<Definition(n1, FALSE)>>,
     <<Definition(n2, TRUE), Definition(n1, TRUE)>>,
     <<Definition(None, TRUE), Definition(n2, FALSE), Definition(n2, TRUE)>>,
     <<Definition(n2, FALSE)>>, <<Definition(n3, FALSE), Definition(n2, TRUE)>>}
=============================================================================
