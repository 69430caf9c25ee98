--------------------------- MODULE MCConnectorSync ---------------------------
(* An instance of ConnectorSync for TLC: all five libraries, two keys of which
   the table holds one at first.  Keys are strings, because a change may rename
   one to the other. *)
EXTENDS ConnectorSync
=============================================================================
