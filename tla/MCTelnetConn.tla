---------------------------- MODULE MCTelnetConn ------------------------------
(* TelnetConn for TLC. *)
EXTENDS TelnetConn

CONSTANTS a, cr, lf, gmcpOn, otherCmd

MCChar == {a}
MCTelnet == {gmcpOn, otherCmd}
MCDataFrames == {<<a>>, <<cr, lf>>, <<lf, a, lf>>}
=============================================================================
