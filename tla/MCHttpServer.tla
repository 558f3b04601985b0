---------------------------- MODULE MCHttpServer ----------------------------
(* Instances of HttpServer: four clients, one whose request matches a      *)
(* route and announces a body, one that matches without a body, one that   *)
(* gets a 404, one that would match if its header were not too long.       *)
EXTENDS HttpServer

CONSTANTS c1, c2, c3, c4

MCClients   == {c1, c2, c3, c4}
MCRouted    == {c1, c2, c4}
MCWithBody  == {c1}
MCOversized == {c4}

UpToTwo    == {0, 1, 2}
=============================================================================
