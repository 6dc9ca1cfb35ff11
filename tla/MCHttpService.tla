--------------------------- MODULE MCHttpService ---------------------------
(***************************************************************************)
(* Two requests at once.  The tenant publishes k1 and may retire it, or add*)
(* k2 to it; a token is signed with either, and one is not valid.          *)
(***************************************************************************)
EXTENDS HttpService

CONSTANTS k1, k2

MCKeys      == {k1, k2}
MCFirstKeys == {k1}
MCPresented == {[kid |-> k1, good |-> TRUE], [kid |-> k2, good |-> TRUE],
                [kid |-> k2, good |-> FALSE]}

=============================================================================
