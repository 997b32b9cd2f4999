---------------------------- MODULE MCWebServer ----------------------------
(* Small instances of WebServer.                                             *)
EXTENDS WebServer

Slashed(tails) == {<<Word("")>> \o tail : tail \in tails}

GoodTokens == {Word("x"), Braces("Id"), Brackets("Id"), Star}

Tokens == GoodTokens \union {StarInside, BraceOnly, BracketOnly}

(* Every route of three good tokens, or of up to two tokens of any kind.     *)
AnyRoutes ==
  Slashed([1 .. 3 -> GoodTokens] \union UNION {[1 .. n -> Tokens] : n \in 0 .. 2})
    \union {<<Star>>}

(* Routes that overlap: they have a part, a name or a tail in common.        *)
OverlappingRoutes ==
  Slashed({<<Word("x"), Brackets("Id")>>, <<Word("x"), Braces("Id"), Word("y")>>,
      <<Braces("Id"), Word("y")>>, <<Word("x"), Braces("sub"), Brackets("Id")>>,
      <<Braces("sub"), Braces("Id")>>, <<Word("x"), Brackets("Id"), Star>>,
      <<Braces("sub"), Brackets("Id"), Brackets("last")>>})
    \union {<<Star>>}

(* And with them every route that AddRoute refuses.                          *)
OverlappingOrRefused == OverlappingRoutes \union {route \in AnyRoutes : ~WellFormed(route)}

UrisUpTo(n) == {<<"">> \o tail : tail \in UNION {[1 .. k -> Words] : k \in 0 .. n}}

ManyUris == UrisUpTo(4)
=============================================================================
