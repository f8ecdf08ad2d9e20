---------------------------- MODULE MCDomLocking ----------------------------
(* Small instances of DomLocking. *)
EXTENDS DomLocking

CONSTANTS p1, p2, d1, d2

\* The order p1, d1, p2, d2.  Only p2 is never asked to parse into d1.
MCRank ==
  [m \in Parsers \cup Documents |->
     IF m = p1 THEN 1 ELSE IF m = d1 THEN 2 ELSE IF m = p2 THEN 3 ELSE 4]
OrderedCalls ==
  {c \in AllCalls : c \in ParseCalls => MCRank[c.parser] < MCRank[c.document]}

\* The arguments of p1.parse_into(d1) use p2 and d2.
OrderedCallbacks ==
  {c \in ParseCalls : c.parser = p1 /\ c.document = d1}
  \X {c \in OrderedCalls :
         /\ c \notin ReadCalls => c.parser = p2
         /\ c \notin ParserCalls => c.document = d2}

\* The argument of parse_into calls the parser, or reads the document, it is given to.
CallbacksToItself == ParseCalls \X AllCalls
NoCallbacks == {}
=============================================================================
