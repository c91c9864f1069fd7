---------------------------- MODULE HandshakeText ----------------------------
(***************************************************************************)
(* The texts of the opening handshake: the parameter lists of its headers, *)
(* read by http/parser.hpp, the URI of the server, and base64.             *)
(*                                                                         *)
(* A text is a row of characters and an iterator is an index into it; the  *)
(* end is one past the last.  Names and numbers are single characters.     *)
(***************************************************************************)
EXTENDS Base64, TLC

CONSTANTS
  Tokens,      \* characters of header_token
  QuotedTexts, \* what a quoted value may say: rows of characters
  MaxText,     \* bound: characters of a parameter list
  MaxUri,      \* bound: characters of a URI
  Bytes64,     \* bytes that are written in base64
  MaxBytes64   \* bound: how many

ASSUME TextAssumption == /\ MaxText \in Nat /\ MaxUri \in Nat
                         /\ Bytes64 \subseteq 0..255 /\ MaxBytes64 \in Nat

VARIABLE txt   \* what a peer or a user writes, and what is meant by it

End(s) == Len(s) + 1
From(s, i, P(_)) == LET at == {k \in i..Len(s) : P(s[k])} IN
                    IF at = {} THEN End(s) ELSE CHOOSE k \in at : \A m \in at : k <= m

-----------------------------------------------------------------------------
(* Tokens, quoted strings and linear white space.                          *)

is_whitespace_char(x) == x = " "
is_token_char(x)      == x \in Tokens

extract_token(s, i) == LET k == From(s, i, LAMBDA x : ~is_token_char(x)) IN
                       [value |-> SubSeq(s, i, k - 1), at |-> k]

\* From the quote at i to the first that no backslash precedes; a backslash
\* that precedes one goes, and nothing is read if there is none.
extract_quoted_string(s, i) ==
  LET upto[marker \in (i + 1)..(Len(s) + 2), cursor \in (i + 1)..(Len(s) + 2)] ==
        LET Joined(k, rest) ==
              IF rest.at = i THEN rest
              ELSE [rest EXCEPT !.value = SubSeq(s, marker, k - 2) \o <<"\"">> \o @]
            Quote(k) ==
              IF k > Len(s) THEN [value |-> <<>>, at |-> i]
              ELSE IF s[k - 1] # "\\" THEN [value |-> SubSeq(s, marker, k - 1), at |-> k + 1]
              ELSE Joined(k, upto[k + 1, k + 1])
        IN Quote(From(s, cursor, LAMBDA x : x = "\""))
  IN IF i > Len(s) \/ s[i] # "\"" THEN [value |-> <<>>, at |-> i] ELSE upto[i + 1, i + 1]

extract_lws(s, i) ==
  LET k == IF /\ End(s) - i > 2 /\ s[i] = "\r" /\ s[i + 1] = "\n"
              /\ is_whitespace_char(s[i + 2])
           THEN i + 3 ELSE i IN
  From(s, k, LAMBDA x : ~is_whitespace_char(x))

extract_all_lws(s, i) ==
  LET pass[k \in 1..End(s)] ==
        LET Then(m) == IF m = End(s) \/ m = k THEN m ELSE pass[m]
        IN Then(extract_lws(s, k))
  IN pass[i]

-----------------------------------------------------------------------------
(* Lists.  A list is read up to "at"; 0 stands for begin, a syntax error.  *)

Error == [at |-> 0, list |-> <<>>]

\* Mutant: an attribute's value must be a token.
AttributeValueToken(s, i) == extract_token(s, i)

\* A value is a quoted string or a token.
AttributeValue(s, i) == LET Quoted(q) == IF q.at # i THEN q ELSE extract_token(s, i)
                        IN Quoted(extract_quoted_string(s, i))

\* The attribute of a name whose "=" may be at k.
Attribute(s, name, k) ==
  LET Valued(i, value) == IF value.at = i THEN Error
                          ELSE [at |-> value.at, list |-> name :> value.value]
      ValueAt(i) == Valued(i, AttributeValue(s, i))
  IN IF name = <<>> THEN Error
     ELSE IF k = End(s) \/ s[k] # "=" THEN [at |-> k, list |-> name :> <<>>]
     ELSE ValueAt(extract_all_lws(s, k + 1))

\* The attributes from begin on; a later one of the same name counts.
extract_attributes(s, begin) ==
  LET from[i \in 1..End(s), first \in BOOLEAN] ==
        LET Joined(one, rest) == IF rest.at = 0 THEN Error
                                 ELSE [rest EXCEPT !.list = @ @@ one.list]
            Then(one) == IF one.at = 0 THEN Error ELSE Joined(one, from[one.at, FALSE])
            Named(name) == Then(Attribute(s, name.value, extract_all_lws(s, name.at)))
            At(k) == IF k = End(s) \/ (~first /\ s[k] # ";")
                     THEN [at |-> k, list |-> <<>>]
                     ELSE Named(extract_token(s,
                                  extract_all_lws(s, IF first THEN k ELSE k + 1)))
        IN At(extract_all_lws(s, i))
  IN IF begin = End(s) THEN Error ELSE from[begin, TRUE]

extract_parameters(s) ==
  LET from[i \in 1..End(s)] ==
        LET Joined(one, rest) == IF rest.at = 0 THEN Error
                                 ELSE [rest EXCEPT !.list = one \o @]
            Then(one, k) == IF k = End(s) \/ s[k] # "," THEN [at |-> k, list |-> one]
                            ELSE IF k = Len(s) THEN Error
                            ELSE Joined(one, from[k + 1])
            Listed(name, attributes) ==
              IF attributes.at = 0 THEN Error
              ELSE Then(<<[name |-> name, attributes |-> attributes.list]>>,
                        extract_all_lws(s, attributes.at))
            Name(name, k) ==
              IF name = <<>> THEN Error
              ELSE Listed(name, IF k <= Len(s) /\ s[k] = ";" THEN extract_attributes(s, k + 1)
                                ELSE [at |-> k, list |-> <<>>])
            Named(name) == Name(name.value, extract_all_lws(s, name.at))
            At(k) == IF k = End(s) THEN [at |-> k, list |-> <<>>]
                     ELSE Named(extract_token(s, k))
        IN At(extract_all_lws(s, i))
  IN IF s = <<>> THEN Error ELSE from[1]

\* An empty list is no error.
parse_parameter_list(s) ==
  LET parsed == extract_parameters(s) IN
  [error |-> s # <<>> /\ parsed.at = 0, list |-> parsed.list]

strip_lws(s) ==
  LET begin == extract_all_lws(s, 1)
      rbegin == extract_all_lws(Reverse(s), 1)
  IN SubSeq(s, begin, End(s) - rbegin)

\* A header that comes again is one list with what was read before.
append_header(value, val) == IF value = <<>> THEN val ELSE value \o <<",", " ">> \o val

-----------------------------------------------------------------------------
(* A peer writes a list, with white space wherever the grammar lets it.    *)

Writes(s) == /\ Len(txt.text) + Len(s) <= MaxText
             /\ txt.kind \in {"none", "list"}
             /\ txt.text \o s = txt'.text

TextInit == txt = [kind |-> "none", text |-> <<>>, next |-> "name", list |-> <<>>,
                   key |-> <<>>, bytes |-> <<>>]

WriteSpace ==
  \E s \in {<<" ">>, <<"\r", "\n", " ">>} :
    /\ txt' = [txt EXCEPT !.text = @ \o s, !.kind = "list"]
    /\ Writes(s)

WriteName ==
  \E x \in Tokens :
    /\ txt.next = "name"
    /\ txt' = [txt EXCEPT !.text = Append(@, x), !.kind = "list", !.next = "named",
                          !.list = Append(@, [name |-> <<x>>, attributes |-> <<>>])]
    /\ Writes(<<x>>)

\* The same header again, which the parser joins to the first.
RepeatHeader ==
  \E x \in Tokens, before, after \in {<<>>, <<" ">>} :
    /\ txt.kind = "none" \/ (txt.kind = "list" /\ txt.next \in {"named", "keyed", "valued"})
    /\ LET text == append_header(txt.text, strip_lws(before \o <<x>> \o after)) IN
       /\ Len(text) <= MaxText
       /\ txt' = [txt EXCEPT !.text = text, !.kind = "list", !.next = "named",
                             !.list = Append(@, [name |-> <<x>>, attributes |-> <<>>])]

WriteSeparator ==
  \E x \in {",", ";", "="} :
    /\ txt.next \in (IF x = "=" THEN {"keyed"} ELSE {"named", "keyed", "valued"})
    /\ txt' = [txt EXCEPT !.text = Append(@, x),
                          !.next = CASE x = "," -> "name" [] x = ";" -> "key"
                                     [] x = "=" -> "value"]
    /\ Writes(<<x>>)

SetAttribute(key, value) ==
  [txt EXCEPT !.list[Len(txt.list)].attributes = (key :> value) @@ @]

WriteKey ==
  \E x \in Tokens :
    /\ txt.next = "key"
    /\ txt' = [SetAttribute(<<x>>, <<>>) EXCEPT !.text = Append(@, x), !.next = "keyed",
                                                !.key = <<x>>]
    /\ Writes(<<x>>)

\* A quote inside a quoted value is written after a backslash.
Quoted(value) ==
  <<"\"">> \o FoldLeft(LAMBDA s, x : s \o (IF x = "\"" THEN <<"\\", x>> ELSE <<x>>),
                       <<>>, value) \o <<"\"">>

WriteValue ==
  \E v \in {[text |-> <<x>>, value |-> <<x>>] : x \in Tokens}
             \cup {[text |-> Quoted(q), value |-> q] : q \in QuotedTexts} :
    /\ txt.next = "value"
    /\ txt' = [SetAttribute(txt.key, v.value) EXCEPT !.text = @ \o v.text,
                                                     !.next = "valued"]
    /\ Writes(v.text)

-----------------------------------------------------------------------------
(* uri.hpp.  A scheme and a number are each one character.                 *)

Schemes == {"ws", "wss", "http", "https"}
Numbers == {"80", "443", "65535", "65536"}
UriChars == Schemes \cup Numbers \cup {"h", ":", "/", "[", "]", "?"}
NumberOf(x) == CASE x = "80" -> 80 [] x = "443" -> 443
                 [] x = "65535" -> 65535 [] x = "65536" -> 65536

Invalid == [m_valid |-> FALSE]
secure(scheme) == scheme \in {"wss", "https"}
default_port(scheme) == IF secure(scheme) THEN 443 ELSE 80

\* atoi stops at the first character that is not a digit, and finds 0 in none.
\* Bound: the numbers of a port are not put together.
get_port_from_string(scheme, port) ==
  IF port = <<>> THEN default_port(scheme)
  ELSE IF port[1] \in Numbers THEN NumberOf(port[1]) ELSE 0

Uri(scheme, host, port, resource) ==
  IF port \in 1..65535
  THEN [m_valid |-> TRUE, m_scheme |-> scheme, m_host |-> host, m_port |-> port,
        m_resource |-> resource]
  ELSE Invalid

\* Where the host ends, an IPv6 literal or not, and where the port begins, or
\* 0 if there is no good host.
HostOf(s) ==
  LET bracket == From(s, 3, LAMBDA x : x = "]")
      colon == From(s, 2, LAMBDA x : x \in {":", "/"}) IN
  IF s[2] # "[" THEN [host |-> SubSeq(s, 2, colon - 1), at |-> colon]
  ELSE IF bracket = End(s) \/ (bracket < Len(s) /\ s[bracket + 1] \notin {":", "/"})
  THEN [host |-> <<>>, at |-> 0]
  ELSE [host |-> SubSeq(s, 3, bracket - 1), at |-> bracket + 1]

\* The constructor from a string.
parse(s) ==
  IF Len(s) < 2 \/ s[1] \notin Schemes \/ HostOf(s).at = 0 THEN Invalid
  ELSE LET h == HostOf(s)
           slash == From(s, h.at, LAMBDA x : x = "/")
           port == IF h.at <= Len(s) /\ s[h.at] = ":"
                   THEN SubSeq(s, h.at + 1, slash - 1) ELSE <<>> IN
       Uri(s[1], h.host, get_port_from_string(s[1], port),
           <<"/">> \o SubSeq(s, slash + 1, Len(s)))

PortText(port) == <<CHOOSE x \in Numbers : NumberOf(x) = port>>

\* Mutant: the port is left out when it is the plain default.
get_host_port_plain(u) ==
  u.m_host \o (IF u.m_port = 80 THEN <<>> ELSE <<":">> \o PortText(u.m_port))

get_host_port(u) ==
  u.m_host \o (IF u.m_port = default_port(u.m_scheme) THEN <<>>
               ELSE <<":">> \o PortText(u.m_port))

str(u) == <<u.m_scheme>> \o get_host_port(u) \o u.m_resource

\* The URI a server makes of a Host header: the part after the last colon that
\* no bracket follows is the port.
get_uri_from_host(scheme, h, resource) ==
  LET last_colon == SelectLastInSeq(h, LAMBDA x : x = ":")
      last_sbrace == SelectLastInSeq(h, LAMBDA x : x = "]") IN
  IF last_colon = 0 \/ last_sbrace > last_colon
  THEN Uri(scheme, h, default_port(scheme), resource)
  ELSE Uri(scheme, SubSeq(h, 1, last_colon - 1),
           get_port_from_string(scheme, SubSeq(h, last_colon + 1, Len(h))), resource)

TypeUri ==
  \E x \in UriChars :
    /\ txt.kind \in {"none", "uri"} /\ Len(txt.text) < MaxUri
    /\ x \in Schemes <=> txt.text = <<>>
    /\ x \in Numbers => txt.text[Len(txt.text)] \notin Numbers
    /\ txt' = [txt EXCEPT !.kind = "uri", !.text = Append(@, x)]

TypeByte ==
  \E x \in Bytes64 :
    /\ txt.kind \in {"none", "bytes"} /\ Len(txt.bytes) < MaxBytes64
    /\ txt' = [txt EXCEPT !.kind = "bytes", !.bytes = Append(@, x)]

TextNext == \/ WriteSpace \/ WriteName \/ RepeatHeader \/ WriteSeparator \/ WriteKey \/ WriteValue
            \/ TypeUri \/ TypeByte

-----------------------------------------------------------------------------
\* A parameter list means what its writer meant, wherever white space was put
\* and whatever a quoted value says.  A URI that is accepted, written as str()
\* does and read again, is the same URI, and so is the one a server makes of its
\* Host header, unless its host has a character only an IPv6 literal's may
\* have: the literal's brackets are left out of both.  Bytes written in base64
\* are read back, the padding there or not, and what has come of them so far is
\* their beginning.
ReadsBack ==
  /\ txt.kind = "list" /\ txt.next \in {"named", "keyed", "valued"} =>
       parse_parameter_list(txt.text) = [error |-> FALSE, list |-> txt.list]
  /\ txt.kind = "uri" /\ parse(txt.text).m_valid =>
       LET u == parse(txt.text) IN
       Range(u.m_host) \cap {":", "/", "["} = {} =>
         /\ parse(str(u)) = u
         /\ get_uri_from_host(u.m_scheme, get_host_port(u), u.m_resource) = u
  /\ txt.kind = "bytes" =>
       LET coded == base64_encode(txt.bytes) IN
       /\ Len(coded) = 4 * Groups(txt.bytes, 3) /\ base64_decode(coded) = txt.bytes
       /\ base64_decode(SelectSeq(coded, is_base64)) = txt.bytes
       /\ \A i \in DOMAIN coded : IsPrefix(base64_decode(SubSeq(coded, 1, i)), txt.bytes)
=============================================================================
