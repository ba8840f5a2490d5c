---------------------------- MODULE MCInstanceLock ----------------------------
(***************************************************************************)
(* Three processes whose PIDs have one, two and four digits, so that every *)
(* overwrite, of a longer by a shorter PID and the other way round, and    *)
(* what a death leaves of it, occurs.  Two inodes: enough for a file that  *)
(* is removed and made again, which the code never does.                   *)
(***************************************************************************)
EXTENDS InstanceLock

CONSTANTS p1, p2, p3
MCProcess == {p1, p2, p3}
MCPID == [p \in MCProcess |->
            CASE p = p1 -> <<7>> [] p = p2 -> <<4, 2>> [] p = p3 -> <<1, 9, 0, 5>>]
===============================================================================
