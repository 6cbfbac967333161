------------------------------ MODULE MCDaemon ------------------------------
(* The instance on which Daemon is checked: two label pairs are enough to    *)
(* tell a count under the right label from one under another.                *)
EXTENDS Daemon

CheckedAttempts == {<<"set_mode", "success">>, <<"set_reserve", "rejected">>}
=============================================================================
