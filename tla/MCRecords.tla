------------------------------ MODULE MCRecords ------------------------------
(* Records with two kinds of event; a user's token without a transaction and *)
(* two with one of the IdP's; and lines of mcp-visor that name the first     *)
(* minted token, its transaction, or nothing, or do not load.                *)
EXTENDS Records

CONSTANTS i1, i2, i3, x, y

MCEvent == {"mint", "deny"}

MCUserTokens == {[jti |-> i1, txn |-> None], [jti |-> i2, txn |-> x], 
                 [jti |-> i3, txn |-> y]}

Line(txn, session, jti, time) == 
    [txn |-> txn, session |-> session, jti |-> jti, time |-> time]

MCVisorLines == {Line(None, 1, None, 1), Line(x, None, i1, 0), 
                 Line(y, x, 2, 2)}
=============================================================================
