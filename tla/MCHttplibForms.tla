---------------------------- MODULE MCHttplibForms ----------------------------
(* Small instances of HttplibForms: "b" is the boundary, "/:i/u/:j" a pattern. *)
EXTENDS HttplibForms

MCBoundary == <<98>>
MCPattern  == <<Slash, Colon, 105, Slash, 117, Slash, Colon, 106>>

Item(name, content) == [name |-> name, filename |-> <<>>, extended |-> <<>>, type |-> <<>>,
                        more |-> <<>>, content |-> content]

Plain == [path |-> <<Slash, 97>>, query |-> <<>>, form |-> "none", params |-> <<>>,
          items |-> <<>>, provided |-> 0, after |-> <<>>]

\* contents that look like boundaries for a while
Tricky == {<<>>, <<97>>, <<Cr, Lf, Dash, Dash>>, <<Dash, Dash, 98, Cr, Lf>>, <<Dash, Dash, 98>>,
           <<Cr, Cr, Lf, Dash>>}

\* names and header lines of many kinds, contents that look like boundaries
SmallForms ==
  {[Plain EXCEPT !.form = "multipart", !.items = <<Item(n, c)>>, !.provided = p, !.after = a] :
     n \in {<<110>>, <<>>, <<110, Semicolon, 109>>, <<110, Lf>>, <<110, Space, 109>>},
     c \in Tricky, p \in {0}, a \in {<<>>, <<120, Cr, Lf>>}}
  \cup {[Plain EXCEPT !.form = "multipart", !.items = <<Item(<<110>>, <<97>>)>>, !.after = a] :
          a \in {<<Cr, Lf>>, <<OtherIs, 111, Cr, Lf, Cr, Lf, 120>>}}
  \cup {[Plain EXCEPT !.form = "multipart", !.path = <<>>, !.items = <<Item(<<110>>, <<97>>)>>]}
  \cup {[Plain EXCEPT !.form = "multipart", !.items = <<[Item(<<110>>, <<97>>) EXCEPT
           !.filename = f, !.extended = e, !.type = t, !.more = m]>>] :
     f \in {<<>>, <<102>>}, e \in {<<>>, <<Utf8Is, Percent, 54, 49>>, <<97>>},
     t \in {<<>>, <<116>>, <<116, Dash, Dash, 98>>}, m \in {<<>>, << <<OtherIs, 111>> >>, << <<111>> >>}}
  \* header lines as long as is allowed, and longer
  \cup {[Plain EXCEPT !.form = "multipart", !.items = <<[Item(<<110>>, <<97>>) EXCEPT
           !.filename = <<102>>, !.extended = <<Utf8Is, 97>> \o e, !.type = t]>>] :
     e \in {<<>>, <<97>>}, t \in {[i \in 1..n |-> 116] : n \in {18, 19, 21}}}

\* several items, of which some come from providers
LongForms ==
  {[Plain EXCEPT !.form = "multipart", !.provided = p,
                 !.items = <<Item(<<110>>, c), Item(<<109>>, d)>>] : c \in Tricky, d \in Tricky, p \in 0..2}
  \cup {[Plain EXCEPT !.form = "multipart", !.provided = p,
                      !.items = <<Item(<<110>>, <<97>>), Item(<<109>>, <<>>), Item(<<110>>, <<98>>)>>] :
          p \in {0, 3}}
  \cup {[Plain EXCEPT !.form = "multipart"]}

\* every byte as a value, and keys of all kinds
Keys   == {<<107>>, <<>>, <<107, Plus>>, <<Ampersand>>, <<107, Space, 108>>, <<200>>, <<Percent, 52, 49>>}
Values == {<<c>> : c \in Byte} \cup {<<>>, <<Percent, 52, 49>>, <<97, Space, 98>>}

Queries ==
  {[Plain EXCEPT !.query = << <<k, v>> >>] : k \in Keys, v \in Values}
  \cup {[Plain EXCEPT !.form = "params", !.params = << <<k, v>>, <<l, v>> >>,
                      !.query = << <<k, <<99>> >> >>] : k \in Keys, l \in {<<107>>, <<108>>}, v \in {<<>>, <<38>>, <<255, 43>>}}

\* paths of the pattern's letters, dots and bytes that are encoded
Segments == {<<>>, <<117>>, <<46>>, <<46, 46>>, <<97, Space>>, <<Percent, 50, 102>>, <<Plus, 200>>,
             <<Colon, 49>>}
Paths == {[Plain EXCEPT !.path = <<Slash>> \o a \o <<Slash>> \o b \o <<Slash>> \o c] :
            a \in Segments, b \in Segments, c \in Segments}
         \cup {[Plain EXCEPT !.path = <<Slash>> \o a \o <<Slash, 117, Slash>> \o b \o <<Slash>>] :
                 a \in Segments, b \in Segments}
         \cup {[Plain EXCEPT !.path = <<Slash, 117, Slash>> \o a] : a \in Segments}
         \cup {[Plain EXCEPT !.path = <<>>]}

MCRequests == SmallForms \cup LongForms \cup Queries \cup Paths
=============================================================================
