---------------------------- MODULE MCHttpServer ----------------------------
(* Requests for the model checker: both versions, with and without the     *)
(* header that matters, one with two headers, and two that are refused.    *)
EXTENDS HttpServer

End == <<CR, LF>>

SmallRequests ==
    {<<Get11>> \o End \o End,
     <<Get10>> \o End \o <<KeepAlive>> \o End \o End,
     <<Get11>> \o End \o <<Close>> \o End \o <<Other>> \o End \o End,
     <<BadVersion>> \o End \o End,
     <<BadMethod>> \o End \o End}
=============================================================================
