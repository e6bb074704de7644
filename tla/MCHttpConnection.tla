-------------------------- MODULE MCHttpConnection --------------------------
(***************************************************************************)
(* The requests of the client: GET, PUT with a body, and a GET that asks   *)
(* for the connection to be closed.                                        *)
(***************************************************************************)
EXTENDS HttpConnection

Get      == <<"request", "header", "blank">>
Put      == <<"request", "length", "blank", "body", "body">>
GetClose == <<"request", "close", "blank">>

MCGetPutGet == <<Get, Put, Get>>
MCGet       == <<Get>>
MCGetGet    == <<Get, Get>>
MCGetClose  == <<GetClose>>
=============================================================================
