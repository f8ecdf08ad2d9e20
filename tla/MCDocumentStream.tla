-------------------------- MODULE MCDocumentStream --------------------------
(* Small instances of DocumentStream. *)
EXTENDS DocumentStream

CONSTANTS MaxDocs   \* the longest input

\* Every input of up to MaxDocs documents, all of them JSON but one perhaps.
MCInputs ==
  {input \in UNION {[1 .. n -> Kinds] : n \in 0 .. MaxDocs} :
     \A p, q \in DOMAIN input : input[p] # "ok" /\ input[q] # "ok" => p = q}
=============================================================================
