---- MODULE MCHttpParse ----
(* The requests of the run of HttpParse: two of them have a malformed line,
   two have line ends in their bodies. *)
EXTENDS HttpParse

Req(line, headers, body) == [line |-> line, eol |-> <<CR, LF>>, headers |-> headers, body |-> body]

MCLengthHeaders == [len0 |-> 0, len1 |-> 1, len2 |-> 2]

MCRequests ==
    { Req("get", <<>>, <<>>),
      Req("get", <<"keep", "other">>, <<>>),
      Req("put", <<"keep">>, <<>>),
      Req("post", <<"len1">>, <<"x">>),
      Req("post", <<"len2">>, <<"x", "y">>),
      Req("post", <<"len2">>, <<CR, LF>>),
      Req("post", <<"len2">>, <<LF, "x">>),
      Req("post", <<"keep", "len1">>, <<"x">>),
      Req("post", <<"len0", "keep">>, <<>>),
      [line |-> "get", eol |-> <<LF>>, headers |-> <<>>, body |-> <<>>],
      [line |-> "get", eol |-> <<CR, "x">>, headers |-> <<>>, body |-> <<>>] }
====
