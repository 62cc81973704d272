------------------------------ MODULE MCLauncher ------------------------------
(* One unit, the control station and the watchdog; one stop request of the    *)
(* index page beside the launcher's own stop.                                 *)
EXTENDS Launcher
===============================================================================
