---------------------------- MODULE MCTftpTransfer ----------------------------
(* Instance of TftpTransfer for TLC: two requests, files of one to three       *)
(* packets, and block numbers that wrap within the largest.  Two tries stand   *)
(* for the code's four, and with three faults there are more of them than      *)
(* tries: late answers can use up all tries of a packet.                       *)
EXTENDS TftpTransfer
==============================================================================
