--------------------------- MODULE MCHttplibClient ---------------------------
EXTENDS HttplibClient

Asks(method, content, taker) ==
  [method |-> method, content |-> content, taker |-> taker, path |-> "some"]

MCCalls == {Asks("GET", "none", "checked"), Asks("HEAD", "none", "body"),
            Asks("POST", "chunked", "body"), Asks("PUT", "badform", "body"),
            [Asks("DELETE", "body", "body") EXCEPT !.path = "empty"]}

Says(status, conn, to) == [interims |-> 0, status |-> status, conn |-> conn, to |-> to]

MCAnswers == {[Says(200, "keep", "nowhere") EXCEPT !.interims = 1], Says(200, "close", "nowhere"),
              Says(303, "keep", "here"), Says(302, "close", "here"),
              Says(302, "keep", "away"), Says(304, "keep", "nowhere")}

MCAddressLists == {<<"connected">>, <<"refused", "nobind">>, <<"timeout", "connected">>}
=============================================================================
