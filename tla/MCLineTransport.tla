-------------------------- MODULE MCLineTransport --------------------------
(***************************************************************************)
(* Instance of LineTransport: a limit of two bytes on a line, reads of two, *)
(* pipes of three, blank, short, largest and overlong lines.               *)
(***************************************************************************)
EXTENDS LineTransport
=============================================================================
