---------------------------- MODULE MCDispatcher ----------------------------
(***************************************************************************)
(* Instances of Dispatcher for TLC.  With three requests and a queue of    *)
(* two, requests are shed while another is being served; with a pipe of    *)
(* one byte, wake bytes are swallowed by a full pipe.                      *)
(***************************************************************************)
EXTENDS Dispatcher

CONSTANTS r1, r2, r3

TwoRequests   == {r1, r2}
ThreeRequests == {r1, r2, r3}
=============================================================================
