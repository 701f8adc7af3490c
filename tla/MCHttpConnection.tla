-------------------------- MODULE MCHttpConnection --------------------------
(* Clients that wait for each response, and clients that pipeline the          *)
(* combinations of routes the handler keeps in order; then one it does not.    *)
EXTENDS HttpConnection

Plain(route) == [route |-> route, body |-> "whole", close |-> FALSE, length |-> FALSE]

Local == Plain("local")
Upstream == Plain("upstream")
Composite == Plain("composite")
Denied == Plain("denied")
Bad == Plain("bad")
BadPost == [Bad EXCEPT !.length = TRUE]
Static == Plain("none")
File == [Static EXCEPT !.body = "file"]
Split == [Local EXCEPT !.body = "split"]
Final == [Split EXCEPT !.close = TRUE]
Post == [Local EXCEPT !.length = TRUE]
PostUp == [Upstream EXCEPT !.length = TRUE]

Serial(requests) == [requests |-> requests, window |-> 1, large |-> TRUE]
Pipelined(requests) == [requests |-> requests, window |-> 3, large |-> TRUE]
PipelinedSmall(requests) == [requests |-> requests, window |-> 3, large |-> FALSE]

MCScripts ==
    {Serial(<<File, Upstream, Final>>), Serial(<<Upstream, File, Composite>>),
     Serial(<<Final, Local>>), Serial(<<Composite, PostUp>>),
     Serial(<<Denied, Local>>), Serial(<<Bad, Local>>), Serial(<<BadPost, Local>>),
     Serial(<<Post, Post>>),
     Pipelined(<<Static, Split, Post>>), Pipelined(<<Local, File>>), Pipelined(<<Local, Bad>>),
     PipelinedSmall(<<Upstream, Composite>>), PipelinedSmall(<<Split, PostUp>>),
     PipelinedSmall(<<Upstream, Local, File>>)}

MCOutOfOrder == {Pipelined(<<Local, Upstream, Local>>)}
=============================================================================
