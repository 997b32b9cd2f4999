----------------------------- MODULE WebRoutes -----------------------------
(* The routes of class WebServer: how AddRoute reads one, and how matchUrl   *)
(* compares one with the parts of a uri.                                     *)
(*                                                                           *)
(* A route is the sequence of its tokens between slashes; a token is a form  *)
(* and a name, and the word "" is the empty token before the first slash. A  *)
(* uri is the sequence of its parts.  A parameter that is not set is "", as  *)
(* GetParameter returns it: no part that is "" is ever stored.               *)
EXTENDS Integers, Sequences
LOCAL INSTANCE SequencesExt

CONSTANTS
  Names,   \* names of parameters
  Words    \* words of a uri

Token(form, name) == [form |-> form, name |-> name]

Word(word)     == Token("word", word)
Braces(name)   == Token("braces", name)         \* {name}
Brackets(name) == Token("brackets", name)       \* [name]
Star           == Token("star", "*")
StarInside     == Token("star inside", "")      \* a * with other characters
BraceOnly      == Token("brace only", "")       \* { without }
BracketOnly    == Token("bracket only", "")     \* [ without ]

-----------------------------------------------------------------------------
(* AddRoute: the loop over the tokens, left by an error.                     *)

Part(name, paramType) == [name |-> name, paramType |-> paramType]

Parsed(parts, atTheEnd, hasOptional, error) ==
  [parts |-> parts, atTheEnd |-> atTheEnd, hasOptional |-> hasOptional, error |-> error]

(* Mutant: a braced parameter is allowed after an optional one.              *)
TokenErrorLax(p, token) ==
  IF p.atTheEnd \/ token.form = "star inside" THEN "ADDROUTE3"
  ELSE CASE token.form = "brace only"             -> "ADDROUTE1"
         [] token.form = "bracket only"           -> "ADDROUTE2"
         [] token.form = "word" /\ p.hasOptional  -> "ADDROUTE4"
         [] OTHER                                 -> ""

TokenError(p, token) ==
  IF p.atTheEnd \/ token.form = "star inside" THEN "ADDROUTE3"
  ELSE CASE token.form = "brace only"                            -> "ADDROUTE1"
         [] token.form = "bracket only"                          -> "ADDROUTE2"
         [] token.form \in {"braces", "word"} /\ p.hasOptional   -> "ADDROUTE4"
         [] OTHER                                                -> ""

TokenPart(token) ==
  CASE token.form = "word"   -> Part(token.name, "Fixed")
    [] token.form = "braces" -> Part(token.name, "Required")
    [] OTHER                 -> Part(token.name, "Optional")

ParseToken(p, token) ==
  CASE p.error # ""              -> p
    [] TokenError(p, token) # "" ->
         Parsed(p.parts, p.atTheEnd, p.hasOptional, TokenError(p, token))
    [] OTHER                     ->
         Parsed(Append(p.parts, TokenPart(token)), token.form = "star",
                p.hasOptional \/ token.form = "brackets", "")

ParseRoute(route) == FoldLeft(ParseToken, Parsed(<<>>, FALSE, FALSE, ""), route)

-----------------------------------------------------------------------------
(* matchUrl: the parts of a route against those of the uri, left by the      *)
(* first part that decides.  What it stored before it fails stays stored.    *)

(* Mutant: the last part of the uri is lost.                                 *)
UriPartShort(uri, i) == IF i + 1 < Len(uri) THEN uri[i + 1] ELSE ""

UriPart(uri, i) == IF i < Len(uri) THEN uri[i + 1] ELSE ""

NoParameters == [name \in Names |-> ""]

Matching(verdict, params) == [verdict |-> verdict, params |-> params]

SetParameter(m, name, word) == Matching(m.verdict, [m.params EXCEPT ![name] = word])

MatchPart(m, part, word) ==
  CASE part.paramType = "Fixed" /\ word # part.name -> Matching("fail", m.params)
    [] part.paramType = "Required" /\ word = ""     -> Matching("fail", m.params)
    [] part.paramType = "Optional" /\ part.name = "*" -> Matching("match", m.params)
    [] part.paramType \in {"Required", "Optional"} /\ part.name # "*" /\ word # "" ->
         SetParameter(m, part.name, word)
    [] OTHER -> m

(* Mutant: parts beyond those of the route are let through.                  *)
TailDecidesLax(m, uri, parts) == IF m.verdict = "open" THEN Matching("match", m.params) ELSE m

TailDecides(m, uri, parts) ==
  CASE m.verdict # "open"                                -> m
    [] m.verdict = "open" /\ UriPart(uri, Len(parts)) # "" -> Matching("fail", m.params)
    [] OTHER                                             -> Matching("match", m.params)

matchUrl(uri, params, parts) ==
  LET Step(m, k) == IF m.verdict = "open" THEN MatchPart(m, parts[k], UriPart(uri, k - 1)) ELSE m
  IN  TailDecides(FoldLeftDomain(Step, Matching("open", params), parts), uri, parts)
=============================================================================
