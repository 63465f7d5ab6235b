----------------------------- MODULE HttplibForms -----------------------------
(***************************************************************************)
(* What a client of httplib says in a request line and in a form, and what *)
(* a handler of the server gets to see of it.  The client writes a form at *)
(* once or, when providers give the last items, one call after the other;  *)
(* its bytes reach detail::MultipartFormDataParser in pieces, cut anywhere,*)
(* and each turn of the loop of parse() is an action.                      *)
(***************************************************************************)
EXTENDS HttplibText

CONSTANTS
  Requests,   \* what clients ask for
  Pattern,    \* the path of the handler
  boundary,   \* the boundary of multipart forms
  MaxFiles,   \* CPPHTTPLIB_MULTIPART_FORM_DATA_FILE_MAX_COUNT
  MaxParams,  \* CPPHTTPLIB_FORM_URL_ENCODED_PAYLOAD_MAX_LENGTH
  MaxHeader   \* CPPHTTPLIB_HEADER_MAX_LENGTH

\* "extended" and "more", a filename* and further header lines, are never written by a
\* client of httplib, nor is text after a form
ItemType == [name : Texts, filename : Texts, extended : Texts, type : Texts, more : Seq(Texts),
             content : Texts]

\* parameters of the target or of a form; of the items the last "provided" ones are
\* given by providers
RequestType == [path : Texts, query : Seq(Texts \X Texts), form : {"none", "params", "multipart"},
                params : Seq(Texts \X Texts), items : Seq(ItemType), provided : Nat, after : Texts]

ASSUME FormsAssumption ==
  /\ \A r \in Requests : /\ r \in RequestType /\ r.provided <= Len(r.items)
                         /\ r.provided > 0 => r.form = "multipart"
                         /\ r.form # "params" => r.params = <<>>
  \* is_multipart_boundary_chars_valid(), and parse_multipart_boundary() wants one
  /\ boundary \in Seq(Alnum \cup {Dash, 95}) \ {<<>>}
  /\ Pattern \in Texts /\ MaxFiles \in Nat /\ MaxParams \in Nat /\ MaxHeader \in Nat

VARIABLES
  req,                                \* the request
  offset, cur_item, cur_start, ended, \* the client: written bytes, the provider at work
  wire,                               \* what was written and not read
  stage,                              \* how far the server is
  path, params, matches, inside,      \* what it made of the request line
  buf, state_, is_valid_, file_,      \* MultipartFormDataParser
  looping,                            \* the loop over header lines goes on
  files, file_count, body,            \* what Server::read_content() collects
  cut                                 \* a piece ended inside the first boundary line

client == <<offset, cur_item, cur_start, ended>>
line   == <<path, params, matches, inside>>
parser == <<buf, state_, is_valid_, file_, looping>>
vars   == <<req, client, wire, stage, line, parser, files, file_count, body, cut>>

NoFile == [name |-> <<>>, filename |-> <<>>, type |-> <<>>, content |-> <<>>]

Init == /\ req \in Requests
        /\ offset = 0 /\ cur_item = 1 /\ cur_start = 0 /\ ended = "no" /\ wire = <<>>
        /\ stage = "asked"
        /\ path = <<>> /\ params = <<>> /\ matches = NoMatch /\ inside = FALSE
        /\ buf = <<>> /\ state_ = 0 /\ is_valid_ = FALSE /\ file_ = NoFile
        /\ looping = FALSE
        /\ files = <<>> /\ file_count = 0 /\ body = <<>> /\ cut = FALSE

----------------------------------------------------------------------------
(* The client: write_request() and the content of the request *)

crlf_ == <<Cr, Lf>>
dash_ == <<Dash, Dash>>

Quoted(text) == <<Equals, Quote>> \o text \o <<Quote>>

\* the header lines of an item
DispositionLine(item) ==
  <<Dispose, Name>> \o Quoted(item.name)
  \o (IF item.filename = <<>> THEN <<>> ELSE <<Semicolon, Space, Filename>> \o Quoted(item.filename))
  \o (IF item.extended = <<>> THEN <<>> ELSE <<Semicolon, Space, Extended, Equals>> \o item.extended)

TypeLines(item) == IF item.type = <<>> THEN <<>> ELSE << <<TypeIs>> \o item.type >>
Lines(item)     == (<<DispositionLine(item)>> \o TypeLines(item)) \o item.more

item_begin(item) ==
  dash_ \o boundary \o crlf_
  \o FlattenSeq([k \in DOMAIN Lines(item) |-> Lines(item)[k] \o crlf_]) \o crlf_

item_end == crlf_
finish   == dash_ \o boundary \o dash_ \o crlf_

serialize(items) ==
  FlattenSeq([k \in DOMAIN items |-> item_begin(items[k]) \o items[k].content \o item_end])

Given     == SubSeq(req.items, 1, Len(req.items) - req.provided)
Providers == SubSeq(req.items, Len(Given) + 1, Len(req.items))

Writes(text) == wire' = wire \o text /\ offset' = offset + Len(text)
Ends         == ended' = "whole"

Sending == stage \in {"reading", "parsing"} /\ ended = "no"

\* the whole content is one string
WriteForm == /\ Sending /\ req.provided = 0
             /\ Writes(IF req.form = "params" THEN params_to_query_str(req.params)
                       ELSE serialize(req.items) \o finish \o req.after)
             /\ Ends /\ UNCHANGED <<cur_item, cur_start>>

\* get_multipart_content_provider(), called until it is done
ProvideGiven == /\ Sending /\ req.provided > 0 /\ offset = 0 /\ Given # <<>>
                /\ Writes(serialize(Given))
                /\ UNCHANGED <<cur_item, cur_start, ended>>

\* a provider gives n bytes from where it is asked to and may say that it is done
Provide(n, done) ==
  /\ Sending /\ req.provided > 0 /\ (offset # 0 \/ Given = <<>>) /\ cur_item <= Len(Providers)
  /\ LET item  == Providers[cur_item]
         begin == IF cur_start = 0 THEN item_begin(item) ELSE <<>>
         start == IF cur_start = 0 THEN offset + Len(begin) ELSE cur_start
         at    == offset + Len(begin) - start
     IN /\ at + n <= Len(item.content) /\ (n > 0 \/ done) /\ (done => at + n = Len(item.content))
        /\ Writes(begin \o SubSeq(item.content, at + 1, at + n) \o IF done THEN item_end ELSE <<>>)
        /\ cur_start' = IF done THEN 0 ELSE start
        /\ cur_item' = IF done THEN cur_item + 1 ELSE cur_item
  /\ UNCHANGED ended

ProvideFinish == /\ Sending /\ req.provided > 0 /\ (offset # 0 \/ Given = <<>>)
                 /\ cur_item > Len(Providers)
                 /\ Writes(finish) /\ Ends /\ UNCHANGED <<cur_item, cur_start>>

\* a provider gives up, or the connection breaks
Break == Sending /\ ended' = "broken" /\ UNCHANGED <<wire, offset, cur_item, cur_start>>

Client == /\ \/ WriteForm \/ ProvideGiven \/ ProvideFinish \/ Break
             \/ \E n \in 0..Max({0} \cup {Len(req.items[k].content) : k \in DOMAIN req.items}),
                   done \in BOOLEAN : Provide(n, done)
          /\ UNCHANGED <<req, stage, line, parser, files, file_count, body, cut>>

----------------------------------------------------------------------------
(* The server: the request line, and the content in pieces *)

\* the handler is found by its pattern, a file by the path
ReadLine == /\ stage = "asked"
            /\ LET parsed == parse_request_line(request_line(req.path, req.query))
               IN IF ~parsed.ok
                  THEN stage' = "refused" /\ UNCHANGED line
                  ELSE /\ stage' = IF req.form = "none" THEN "handled" ELSE "reading"
                       /\ path' = parsed.path /\ params' = parsed.params
                       /\ matches' = match(Pattern, parsed.path)
                       /\ inside' = is_valid_path(parsed.path)
            /\ UNCHANGED <<req, client, wire, parser, files, file_count, body, cut>>

dash_boundary_crlf_ == dash_ \o boundary \o crlf_
crlf_dash_boundary_ == crlf_ \o dash_ \o boundary

\* how much of the content was read before
Read == offset - Len(wire)

Receive(n) == /\ stage = "reading" /\ n \in 1..Len(wire)
              /\ wire' = SubSeq(wire, n + 1, Len(wire))
              /\ IF req.form = "params"
                 THEN body' = body \o SubSeq(wire, 1, n) /\ UNCHANGED <<stage, buf, cut>>
                 ELSE /\ buf' = buf \o SubSeq(wire, 1, n) /\ stage' = "parsing"
                      /\ cut' = (cut \/ Read + n < Len(dash_boundary_crlf_))
                      /\ UNCHANGED body
              /\ UNCHANGED <<req, client, line, state_, is_valid_, file_, looping, files, file_count>>

\* the end of the content, or of the connection before it
ReceiveEnd == /\ stage = "reading" /\ wire = <<>> /\ ended # "no"
              /\ IF ended = "whole"
                    /\ IF req.form = "params" THEN Len(body) <= MaxParams ELSE is_valid_
                 THEN /\ stage' = "handled"
                      /\ params' = IF req.form = "params" THEN params \o parse_query_text(body)
                                   ELSE params
                 ELSE stage' = "refused" /\ UNCHANGED params
              /\ UNCHANGED <<req, client, wire, path, matches, inside, parser, files, file_count,
                             body, cut>>

----------------------------------------------------------------------------
(* MultipartFormDataParser::parse() *)

found(text)    == {p \in 0..Len(buf) - Len(text) : SubSeq(buf, p + 1, p + Len(text)) = text}
buf_find(text) == IF found(text) = {} THEN Len(buf) ELSE Min(found(text))
buf_erase(n)   == buf' = SubSeq(buf, n + 1, Len(buf))
buf_head(n)    == SubSeq(buf, 1, n)
buf_start_with(text) == IsPrefix(text, buf)

connection == <<req, client, wire, line, body, cut>>

\* parse() returns and waits for the next piece
Returns == /\ stage' = "reading" /\ looping' = FALSE
           /\ UNCHANGED <<state_, is_valid_, file_, files, file_count>>
Rejects == /\ stage' = "refused" /\ is_valid_' = FALSE /\ looping' = FALSE
           /\ UNCHANGED <<state_, file_, files, file_count>>
Enters(state) == state_' = state /\ looping' = FALSE /\ UNCHANGED stage

In(state) == stage = "parsing" /\ buf # <<>> /\ state_ = state

ParseEnd == stage = "parsing" /\ buf = <<>> /\ Returns /\ UNCHANGED <<buf, connection>>

\* everything before the boundary is erased, and the whole buffer if there is none
SkipPreamble ==
  /\ In(0)
  /\ IF found(dash_boundary_crlf_) = {}
     THEN buf' = <<>> /\ Returns
     ELSE /\ buf_erase(buf_find(dash_boundary_crlf_) + Len(dash_boundary_crlf_))
          /\ Enters(1) /\ UNCHANGED <<is_valid_, file_, files, file_count>>
  /\ UNCHANGED connection

NewEntry == /\ In(1) /\ Enters(2) /\ file_' = NoFile
            /\ UNCHANGED <<buf, is_valid_, files, file_count, connection>>

\* the length of a header line, or of what has come of it, is only looked at before
\* the loop over the lines
Bounded == looping \/ buf_find(crlf_) <= MaxHeader

HeaderTooLong == /\ In(2) /\ ~Bounded /\ stage' = "refused" /\ looping' = FALSE
                 /\ UNCHANGED <<buf, state_, is_valid_, file_, files, file_count, connection>>

HeaderWaits == /\ In(2) /\ Bounded /\ found(crlf_) = {} /\ Returns /\ UNCHANGED <<buf, connection>>

\* the empty line: the callback for the header makes an entry of the file, but for
\* one too many
HeadersEnd == /\ In(2) /\ buf_start_with(crlf_) /\ file_count' = file_count + 1
              /\ IF file_count = MaxFiles
                 THEN /\ stage' = "refused" /\ is_valid_' = FALSE /\ looping' = FALSE
                      /\ UNCHANGED <<buf, state_, files>>
                 ELSE /\ files' = Append(files, file_) /\ buf_erase(Len(crlf_)) /\ Enters(3)
                      /\ UNCHANGED is_valid_
              /\ UNCHANGED <<file_, connection>>

Header == buf_head(buf_find(crlf_))
Field(header) == SubSeq(header, 2, Len(header))

parse_header(header) ==
  /\ header[1] \in {Dispose, TypeIs, OtherIs}
  /\ \A i \in DOMAIN header : header[i] \in Visible \cup Blanks

\* an extended file name must be UTF-8 and not empty
Decodable(value) == Len(value) > 1 /\ value[1] = Utf8Is

Disposition == parse_disposition_params(Field(Header))

Acceptable == /\ parse_header(Header)
              /\ Header[1] = Dispose =>
                   /\ Has(Disposition, <<Name>>)
                   /\ Has(Disposition, <<Extended>>) => Decodable(Value(Disposition, <<Extended>>))

Disposed == [file_ EXCEPT
  !.name = Value(Disposition, <<Name>>),
  !.filename = IF Has(Disposition, <<Extended>>)
               THEN decode_url(Field(Value(Disposition, <<Extended>>)), FALSE)
               ELSE IF Has(Disposition, <<Filename>>) THEN Value(Disposition, <<Filename>>) ELSE @]

HeaderLine ==
  /\ In(2) /\ Bounded /\ found(crlf_) # {} /\ ~buf_start_with(crlf_)
  /\ IF ~Acceptable THEN Rejects /\ UNCHANGED buf
     ELSE /\ file_' = CASE Header[1] = TypeIs  -> [file_ EXCEPT !.type = trim_copy(Field(Header))]
                        [] Header[1] = Dispose -> Disposed
                        [] Header[1] = OtherIs -> file_
          /\ buf_erase(Len(Header) + Len(crlf_)) /\ looping' = TRUE
          /\ UNCHANGED <<stage, state_, is_valid_, files, file_count>>
  /\ UNCHANGED connection

Collected(n) == files' = [files EXCEPT ![Len(files)].content = @ \o buf_head(n)]

Content == /\ In(3) /\ found(crlf_dash_boundary_) # {}
           /\ Collected(buf_find(crlf_dash_boundary_))
           /\ buf_erase(buf_find(crlf_dash_boundary_) + Len(crlf_dash_boundary_)) /\ Enters(4)
           /\ UNCHANGED <<is_valid_, file_, file_count, connection>>

\* mutant: the beginning of a boundary is collected too
ContentFlushed == /\ In(3) /\ found(crlf_dash_boundary_) = {} /\ stage' = "reading"
                  /\ IF Len(buf) >= Len(crlf_dash_boundary_)
                     THEN Collected(Len(buf)) /\ buf' = <<>> ELSE UNCHANGED <<files, buf>>
                  /\ UNCHANGED <<state_, is_valid_, file_, looping, file_count, connection>>

\* what cannot belong to a boundary is collected
ContentGoesOn == /\ In(3) /\ found(crlf_dash_boundary_) = {} /\ stage' = "reading"
                 /\ LET n == Len(buf) - Len(crlf_dash_boundary_)
                    IN IF n > 0 THEN Collected(n) /\ buf_erase(n) ELSE UNCHANGED <<files, buf>>
                 /\ UNCHANGED <<state_, is_valid_, file_, looping, file_count, connection>>

\* mutant: a piece that ends here is an error
BoundaryEndEager ==
  /\ In(4)
  /\ CASE buf_start_with(crlf_) -> /\ buf_erase(Len(crlf_)) /\ Enters(1)
                                   /\ UNCHANGED <<is_valid_, file_, files, file_count>>
       [] buf_start_with(dash_) -> /\ is_valid_' = TRUE /\ buf' = <<>>
                                   /\ UNCHANGED <<stage, state_, file_, looping, files, file_count>>
       [] OTHER                 -> Rejects /\ UNCHANGED buf
  /\ UNCHANGED connection

\* a new entry, the end, or more has to come
BoundaryEnd ==
  /\ In(4)
  /\ CASE buf_start_with(crlf_) -> /\ buf_erase(Len(crlf_)) /\ Enters(1)
                                   /\ UNCHANGED <<is_valid_, file_, files, file_count>>
       [] buf_start_with(dash_) -> /\ is_valid_' = TRUE /\ buf' = <<>>
                                   /\ UNCHANGED <<stage, state_, file_, looping, files, file_count>>
       [] OTHER                 -> Returns /\ UNCHANGED buf
  /\ UNCHANGED connection

Parse == \/ ParseEnd \/ SkipPreamble \/ NewEntry \/ HeaderTooLong \/ HeaderWaits \/ HeadersEnd
         \/ HeaderLine \/ Content \/ ContentGoesOn \/ BoundaryEnd

----------------------------------------------------------------------------

Done == stage \in {"handled", "refused"} /\ UNCHANGED vars

Next == Client \/ ReadLine \/ (\E n \in 1..Len(wire) : Receive(n)) \/ ReceiveEnd \/ Parse \/ Done

Spec == Init /\ [][Next]_vars

----------------------------------------------------------------------------
(* Properties *)

\* what comes through unchanged: header fields without the separators of their
\* parameters, content without the boundary
PlainField(text) == \A i \in DOMAIN text : text[i] \in Visible \ {Quote, Semicolon, Equals}

Holds(text, part) == \E p \in DOMAIN text : IsPrefix(part, SubSeq(text, p, Len(text)))

PlainItem(item) ==
  /\ \A text \in {item.name, item.filename, item.extended, item.type} : PlainField(text)
  /\ item.extended = <<>> \/ Decodable(item.extended)
  /\ \A k \in DOMAIN item.more : /\ item.more[k] # <<>> /\ item.more[k][1] = OtherIs
                                 /\ parse_header(item.more[k])
  /\ ~Holds(item.content, crlf_dash_boundary_)

\* a line of the item, but the first, is one that begins an item
LooksLikeStart(item) == Holds(Tail(item_begin(item)) \o item.content \o item_end, dash_boundary_crlf_)

PlainForm == req.form = "multipart" /\ \A k \in DOMAIN req.items : PlainItem(req.items[k])

\* keys are written unencoded
PlainKey(text) == text # <<>> /\ \A i \in DOMAIN text :
                    text[i] \in Visible \ {Ampersand, Equals, Percent, Plus, Hash, Question}
PlainPath(text) == text # <<>> /\ \A i \in DOMAIN text :
                     text[i] \in Visible \ {Percent, Hash, Question}

Expected(item) ==
  [name |-> item.name, type |-> item.type, content |-> item.content,
   filename |-> IF item.extended = <<>> THEN item.filename ELSE decode_url(Tail(item.extended), FALSE)]

\* Wherever the pieces of a form are cut, and whether it comes from strings or from
\* providers, a handler sees the last items of it, each of them whole and unchanged;
\* all of them, unless a piece ended inside the first boundary line.  (When one did, no
\* header line or content may look like that line either: it is taken for it.  And text
\* after a form may have no empty line: it is taken for the headers of an item.)  It
\* never has more items than allowed.
FormTrue ==
  /\ Len(files) <= MaxFiles
  /\ /\ stage = "handled" /\ PlainForm
     /\ cut => \A k \in DOMAIN req.items : ~LooksLikeStart(req.items[k])
     /\ ~Holds(crlf_ \o req.after, crlf_ \o crlf_)
     => \E k \in 0..Len(req.items) :
          /\ files = [i \in 1..Len(req.items) - k |-> Expected(req.items[i + k])]
          /\ ~cut => k = 0

\* with the CR, of which the parser cannot say yet that it ends the line
LongHeader(item) == \E k \in DOMAIN Lines(item) : Len(Lines(item)[k]) >= MaxHeader

\* A form is only refused when a piece ended inside the first boundary line, the client
\* broke off, it is empty, has too many items or a header line that is too long (a line
\* may be too long and accepted: only one that begins a turn is measured), or has text
\* after its end.
FormTaken == stage = "refused" /\ offset # 0 /\ PlainForm =>
  \/ cut \/ ended = "broken" \/ Len(req.items) \notin 1..MaxFiles \/ req.after # <<>>
  \/ \E k \in DOMAIN req.items : LongHeader(req.items[k])

\* A handler sees the path the client asked for, and its parameters, of the query
\* and of a form, with every value unchanged; of equal ones it sees one.
LineTrue ==
  /\ PlainPath(req.path) => stage \in {"asked", "refused"} \/ path = req.path
  /\ /\ PlainPath(req.path) /\ stage = "handled"
     /\ \A k \in DOMAIN req.query : PlainKey(req.query[k][1])
     /\ \A k \in DOMAIN req.params : PlainKey(req.params[k][1])
     => params = Unrepeated(req.query) \o Unrepeated(req.params)

\* the path that a pattern with values stands for; a value ends at a slash or at the end
Filled(parts, values) ==
  FlattenSeq([k \in DOMAIN parts |->
    parts[k][1] \o IF Len(parts[k]) = 1 THEN <<>> ELSE values[k] \o <<Slash>>])

\* A path that matches is the pattern with its values, none of which has a slash; a path
\* of which a part begins with a colon is left to RouteCaptured, and a slash more at the
\* end to RouteLength.  And a path that is valid leads nowhere out of the root.
RouteTrue ==
  /\ matches.matches =>
       /\ \A k \in DOMAIN matches.values : Places(matches.values[k], Slash) = {}
       /\ ~Holds(path, <<Slash, Colon>>)
          => Filled(PathParamsMatcher(Pattern), matches.values) \in {path, path \o <<Slash>>}
  /\ inside => \A k \in DOMAIN Components(path) :
       LET part == Components(path)
       IN Cardinality({j \in 1..k : part[j] = Parent})
            <= Cardinality({j \in 1..k : part[j] \notin {Here, Parent}})

\* What the comment at the matcher shows (httplib.h:1193-1196): the path
\* "/path/fragments/:1/more/fragments/:2" has the values "1" and "2".  A colon before a
\* value is no part of it: one that begins with a colon has another one before it.
RouteCaptured == matches.matches =>
  \A k \in DOMAIN matches.values :
    IsPrefix(<<Colon>>, matches.values[k]) => Holds(path, <<Slash, Colon>> \o matches.values[k])

\* What match() says of itself (httplib.h:7825): no path is matched that is longer than
\* the pattern, which has a value for a name but no slash more.
RouteLength == matches.matches =>
  Cardinality(Places(path, Slash)) <= Cardinality(Places(Pattern, Slash))
=============================================================================
