----------------------------- MODULE HttplibText -----------------------------
(***************************************************************************)
(* The texts httplib writes and reads again: percent encodings, query      *)
(* parameters, the parameters of Content-Disposition, the request line,    *)
(* path patterns.  A text is a sequence of bytes; the numbers above 255    *)
(* stand for fixed words, which are never cut.                             *)
(***************************************************************************)
EXTENDS Integers, Sequences, FiniteSets, SequencesExt

Byte  == 0..255
Texts == Seq(Nat)

Tab == 9           Lf == 10           Cr == 13           Space == 32
Quote == 34        Hash == 35         Percent == 37      Ampersand == 38
Plus == 43         Dash == 45         Slash == 47        Colon == 58
Semicolon == 59    Equals == 61       Question == 63     Backslash == 92

Dispose   == 256   \* Content-Disposition: form-data;
TypeIs    == 257   \* Content-Type:
OtherIs   == 258   \* another header field name and its colon
Name      == 259   \* name
Filename  == 260   \* filename
Extended  == 261   \* filename*
Utf8Is    == 262   \* UTF-8''
Method    == 263   \* a method
Version   == 264   \* HTTP/1.1

Digit == 48..57
Alnum == Digit \cup (65..90) \cup (97..122)

Blanks == {Space, Tab}

\* what a header field value consists of
Visible == (33..126) \cup (128..255) \cup (256..264)

----------------------------------------------------------------------------
(* Hexadecimal numbers and percent encodings *)

HexDigit == Digit \cup (65..70) \cup (97..102)

is_hex(c) == IF c \in Digit THEN c - 48 ELSE IF c \in 65..70 THEN c - 55 ELSE c - 87

\* the number in n digits from i on, if they are there
IsNumber(s, i, n)      == i + n - 1 <= Len(s) /\ \A j \in i..i + n - 1 : s[j] \in HexDigit
from_hex_to_i(s, i, n) ==
  LET val[k \in 0..n] == IF k = 0 THEN 0 ELSE val[k - 1] * 16 + is_hex(s[i + k - 1])
  IN val[n]

Hex(n) == IF n < 10 THEN 48 + n ELSE 55 + n

\* "%" and two capital digits
Escaped(c) == <<Percent, Hex(c \div 16), Hex(c % 16)>>

EscapedWhere(s, set) ==
  FlattenSeq([i \in DOMAIN s |-> IF s[i] \in set THEN Escaped(s[i]) ELSE <<s[i]>>])

\* - _ . ! ~ * ' ( )
Unreserved == Alnum \cup {45, 95, 46, 33, 126, 42, 39, 40, 41}

encode_query_param(s) == EscapedWhere(s, Byte \ Unreserved)

\* a text that ends at its first zero
encode_url(s) ==
  LET zeros == {i \in DOMAIN s : s[i] = 0}
      text  == IF zeros = {} THEN s ELSE SubSeq(s, 1, (CHOOSE i \in zeros : \A j \in zeros : i <= j) - 1)
  IN EscapedWhere(text, {Space, Plus, Cr, Lf, 39, 44, Semicolon} \cup (128..255))

\* of a number of four digits; half of a surrogate pair has no encoding
to_utf8(n) ==
  IF n < 128 THEN <<n>>
  ELSE IF n < 2048 THEN <<192 + (n \div 64), 128 + (n % 64)>>
  ELSE IF n \in 55296..57343 THEN <<>>
  ELSE <<224 + (n \div 4096), 128 + ((n \div 64) % 64), 128 + (n % 64)>>

\* how many bytes the escape at i has, 0 when there is none
EscapeLength(s, i) ==
  IF s[i] # Percent \/ i = Len(s) THEN 0
  ELSE IF s[i + 1] = 117 THEN IF IsNumber(s, i + 2, 4) THEN 6 ELSE 0
  ELSE IF IsNumber(s, i + 1, 2) THEN 3 ELSE 0

Unescaped(s, i, plus) ==
  CASE EscapeLength(s, i) = 6 -> to_utf8(from_hex_to_i(s, i + 2, 4))
    [] EscapeLength(s, i) = 3 -> <<from_hex_to_i(s, i + 1, 2)>>
    [] EscapeLength(s, i) = 0 -> IF plus /\ s[i] = Plus THEN <<Space>> ELSE <<s[i]>>

decode_url(s, plus) ==
  LET from[i \in 1..Len(s) + 1] ==
        IF i > Len(s) THEN <<>>
        ELSE Unescaped(s, i, plus)
             \o from[i + (IF EscapeLength(s, i) = 0 THEN 1 ELSE EscapeLength(s, i))]
  IN from[1]

----------------------------------------------------------------------------
(* Taking texts apart *)

trim_copy(s) ==
  LET inner == {i \in DOMAIN s : s[i] \notin Blanks}
  IN IF inner = {} THEN <<>>
     ELSE SubSeq(s, CHOOSE i \in inner : \A j \in inner : i <= j,
                    CHOOSE i \in inner : \A j \in inner : j <= i)

trim_double_quotes_copy(s) ==
  IF Len(s) >= 2 /\ s[1] = Quote /\ s[Len(s)] = Quote THEN SubSeq(s, 2, Len(s) - 1) ELSE s

Places(s, d) == {i \in DOMAIN s : s[i] = d}

NonEmpty(parts) ==
  FlattenSeq([k \in DOMAIN parts |-> IF parts[k] = <<>> THEN <<>> ELSE <<parts[k]>>])

\* what is between separators
Parts(s, d) ==
  LET read[i \in 0..Len(s)] ==
        IF i = 0 THEN << <<>> >>
        ELSE LET parts == read[i - 1]
             IN IF s[i] = d THEN Append(parts, <<>>)
                ELSE [parts EXCEPT ![Len(parts)] = Append(@, s[i])]
  IN read[Len(s)]

split(s, d) == NonEmpty([k \in DOMAIN Parts(s, d) |-> trim_copy(Parts(s, d)[k])])

\* what comes before the first separator and what comes after it
divide(s, d) ==
  IF Places(s, d) = {} THEN <<s, <<>> >>
  ELSE LET i == CHOOSE i \in Places(s, d) : \A j \in Places(s, d) : i <= j
       IN <<SubSeq(s, 1, i - 1), SubSeq(s, i + 1, Len(s))>>

\* a part that was seen before is left out
Unrepeated(parts) ==
  FlattenSeq([k \in DOMAIN parts |->
    IF \E j \in 1..k - 1 : parts[j] = parts[k] THEN <<>> ELSE <<parts[k]>>])

----------------------------------------------------------------------------
(* Parameters: sequences of keys with values, in the order of the multimap *)

\* keys are written as they are
params_to_query_str(params) ==
  FlattenSeq([k \in DOMAIN params |->
    (IF k = 1 THEN <<>> ELSE <<Ampersand>>)
    \o params[k][1] \o <<Equals>> \o encode_query_param(params[k][2])])

\* what has a key, each text read by itself
Pairs(parts, Reads(_)) ==
  FlattenSeq([k \in DOMAIN parts |->
    LET pair == divide(parts[k], Equals)
    IN IF pair[1] = <<>> THEN <<>> ELSE << <<Reads(pair[1]), Reads(pair[2])>> >>])

\* mutant: the values stay encoded
parse_query_raw(s) == Pairs(Unrepeated(split(s, Ampersand)), LAMBDA text : text)

parse_query_text(s) == Pairs(Unrepeated(split(s, Ampersand)), LAMBDA text : decode_url(text, TRUE))

\* of several values the last one counts
parse_disposition_params(s) ==
  LET parts == Unrepeated(split(s, Semicolon))
      words == NonEmpty([k \in DOMAIN parts |-> split(parts[k], Equals)])
      value(w) == IF Len(w) = 1 THEN <<>> ELSE w[Len(w)]
  IN [k \in DOMAIN words |-> <<trim_double_quotes_copy(words[k][1]),
                               trim_double_quotes_copy(value(words[k]))>>]

Has(params, key)   == \E k \in DOMAIN params : params[k][1] = key
Value(params, key) == params[CHOOSE k \in DOMAIN params :
                               /\ params[k][1] = key
                               /\ \A j \in 1..k - 1 : params[j][1] # key][2]

----------------------------------------------------------------------------
(* The request line *)

append_query_params(path, params) ==
  path \o (IF \E i \in 2..Len(path) : path[i] = Question /\ path[1] # Question
           THEN <<Ampersand>> ELSE <<Question>>)
       \o params_to_query_str(params)

request_line(path, params) ==
  <<Method, Space>> \o encode_url(IF params = <<>> THEN path ELSE append_query_params(path, params))
  \o <<Space, Version>>

parse_request_line(line) ==
  LET words  == split(line, Space)
      target == divide(words[2], Hash)[1]
      halves == divide(target, Question)
  IN IF Len(words) # 3 \/ words[1] # <<Method>> \/ words[3] # <<Version>> THEN [ok |-> FALSE]
     ELSE [ok |-> TRUE, path |-> decode_url(halves[1], FALSE), params |-> parse_query_text(halves[2])]

----------------------------------------------------------------------------
(* Paths *)

Components(path) == NonEmpty(Parts(path, Slash))

Here   == <<46>>
Parent == <<46, 46>>

\* how deep the first k components lead; -1 when one of them leaves the root
Level(parts) ==
  LET down[k \in 0..Len(parts)] ==
        IF k = 0 THEN 0
        ELSE IF down[k - 1] = -1 \/ parts[k] = Here THEN down[k - 1]
        ELSE IF parts[k] = Parent THEN down[k - 1] - 1 ELSE down[k - 1] + 1
  IN down[Len(parts)]

is_valid_path(path) == Places(path, 0) \cup Places(path, Backslash) = {} /\ Level(Components(path)) >= 0

\* where the text is found in another from index i on, counted from 0; -1 when nowhere
FindFrom(s, text, i) ==
  LET found == {p \in i..Len(s) - Len(text) : SubSeq(s, p + 1, p + Len(text)) = text}
  IN IF found = {} THEN -1 ELSE CHOOSE p \in found : \A q \in found : p <= q

\* mutant: a value goes on to the end
SeparatedNever(s, i) == Len(s)

\* the end of a path component
Separated(s, i) == IF FindFrom(s, <<Slash>>, i) = -1 THEN Len(s) ELSE FindFrom(s, <<Slash>>, i)

\* the fixed texts of a pattern, each with the parameter that follows it, if any
PathParamsMatcher(pattern) ==
  LET from[e \in 0..Len(pattern) + 1] ==
        LET marker == FindFrom(pattern, <<Slash, Colon>>, IF e = 0 THEN 0 ELSE e - 1)
            sep    == Separated(pattern, marker + 2)
        IN IF marker >= 0
           THEN << <<SubSeq(pattern, e + 1, marker + 1), SubSeq(pattern, marker + 3, sep)>> >> \o from[sep + 1]
           ELSE IF e < Len(pattern) THEN << <<SubSeq(pattern, e + 1, Len(pattern))>> >> ELSE <<>>
  IN from[0]

NoMatch == [matches |-> FALSE, values |-> <<>>]

\* the values of the parameters
match(pattern, path) ==
  LET parts == PathParamsMatcher(pattern)
      from[k \in 1..Len(parts) + 1] == [at \in 0..Len(path) + 1 |->
        IF k > Len(parts) THEN [NoMatch EXCEPT !.matches = at >= Len(path)]
        ELSE LET end  == at + Len(parts[k][1])
                 sep  == Separated(path, end)
                 rest == from[k + 1][sep + 1]
             IN IF end > Len(path) \/ SubSeq(path, at + 1, end) # parts[k][1] THEN NoMatch
                ELSE IF Len(parts[k]) = 1 THEN from[k + 1][end]
                ELSE [rest EXCEPT !.values = <<SubSeq(path, end + 1, sep)>> \o @]]
  IN from[1][0]
=============================================================================
