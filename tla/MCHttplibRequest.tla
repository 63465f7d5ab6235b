------------------------- MODULE MCHttplibRequest -------------------------
EXTENDS HttplibRequest

Plainly == [method |-> "GET", framing |-> "none", units |-> 0, ranges |-> <<>>,
            conn |-> "keep", trait |-> "none"]
Posted(framing) == [Plainly EXCEPT !.method = "POST", !.framing = framing, !.units = 2]
R(first, last) == [first |-> first, last |-> last]

MCRequests ==
       {Plainly, [Plainly EXCEPT !.method = "HEAD"], [Plainly EXCEPT !.method = "TRACE"]}
  \cup {[Plainly EXCEPT !.conn = c] : c \in {"close", "old"}}
  \cup {[Plainly EXCEPT !.ranges = r] :
          r \in {<<R(-1, 1)>>, <<R(0, 0)>>, <<R(0, 0), R(1, 5)>>, <<R(0, 2), R(1, 2), R(2, 2)>>}}
  \cup {[Plainly EXCEPT !.trait = t, !.conn = c] :
          t \in {"header", "target"}, c \in {"keep", "close"}}
  \cup {[Plainly EXCEPT !.trait = t] : t \in {"line", "range"}}
  \cup {Posted(f) : f \in {"length", "chunked"}}
  \cup {[Posted("length") EXCEPT !.method = "GET"]}
  \cup {[Posted("length") EXCEPT !.trait = t] :
          t \in {"boundary", "coding", "number", "big", "content", "expect"}}
  \cup {Posted("none"), [Posted("chunked") EXCEPT !.method = "DELETE"],
        [Posted("chunked") EXCEPT !.trait = "big"],
        [Posted("chunked") EXCEPT !.trait = "unended", !.units = 1]}

MCPipelined == {Posted("length")}

MCHandlings == [status : {-1, 301, 404}, kind : {"none"}, size : {0}]
          \cup [status : {-1}, kind : {"sized"}, size : {2}]
          \cup [status : {404}, kind : {"file"}, size : {2}]
          \cup [status : {-1}, kind : {"body"}, size : {3}]
          \cup [status : {-1}, kind : {"chunked", "stream"}, size : {0}]

MCErrorHandlings == [kind : {"body"}, size : {1}]
=============================================================================
