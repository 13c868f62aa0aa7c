---------------------------- MODULE MCHttpServer ----------------------------
EXTENDS HttpServer

\* A request, two in one piece and a third, one with a body in three pieces, a
\* malformed one; HTTP/1.1 clients keep the connection, HTTP/1.0 ones do not
Client(chunks, alive) == [chunks |-> chunks, keep |-> alive]
Whole == << <<"head", "end">> >>
Pipelined == << <<"head", "end", "head", "end">>, <<"head", "end">> >>
Post == << <<"head">>, <<"endb">>, <<"body">> >>
Junk == << <<"junk">> >>

MCScripts ==
  { <<Client(Whole, FALSE), Client(Pipelined, TRUE)>>,
    <<Client(Post, TRUE), Client(Junk, FALSE)>> }
=============================================================================
